---- MODULE Spec2Model ----
(***************************************************************************)
(* Verification model of the dependency-helper engine:                     *)
(*   fix-validation-errors.ts  (analyzeValidationErrors and its helpers)   *)
(*   filterOutUselessError.ts  (filterUnactionableErrors)                  *)
(*                                                                         *)
(* JSON values (schemas, form data, error parameters) are tagged records;  *)
(* an object is an ordered list of key/value pairs (JavaScript keeps the   *)
(* insertion order of string keys).  A dot-notation path string is the     *)
(* sequence of its "."-separated parts, so split(".") and join(".") are    *)
(* the reading and the writing of that sequence; the absent path (null)    *)
(* is the empty sequence and the empty string is <<"">>.                   *)
(***************************************************************************)
EXTENDS Integers, Sequences, FiniteSets, TLC

VARIABLES validationErrors, formData, ffSchema, schema, pc, analysisOutput,
          filterOutput, dedupOutput, calls

vars == <<validationErrors, formData, ffSchema, schema, pc, analysisOutput,
          filterOutput, dedupOutput, calls>>

(***************************************************************************)
(* JSON values and the JavaScript operations the engine applies to them.   *)
(***************************************************************************)
Undef == [t |-> "undef"]
Null == [t |-> "null"]
Str(s) == [t |-> "str", s |-> s]
Num(n) == [t |-> "num", n |-> n]
Bool(b) == [t |-> "bool", b |-> b]
Arr(e) == [t |-> "arr", e |-> e]
Obj(p) == [t |-> "obj", p |-> p]
KV(k, v) == [k |-> k, v |-> v]

\* value === undefined || value === null
IsNullish(v) == v.t \in {"undef", "null"}

\* JavaScript truthiness, as tested by `if (x)`, `x && ...`, `x || ...`, `!x`
Truthy(v) ==
  CASE v.t = "undef" -> FALSE
    [] v.t = "null" -> FALSE
    [] v.t = "bool" -> v.b
    [] v.t = "num" -> v.n # 0
    [] v.t = "str" -> v.s # ""
    [] OTHER -> TRUE

\* a === b (objects and arrays are compared by reference: values parsed from
\* different JSON documents are never the same object)
StrictEq(a, b) ==
  /\ a.t = b.t
  /\ CASE a.t = "str" -> a.s = b.s
       [] a.t = "num" -> a.n = b.n
       [] a.t = "bool" -> a.b = b.b
       [] a.t \in {"undef", "null"} -> TRUE
       [] OTHER -> FALSE

HasKey(o, k) == o.t = "obj" /\ \E i \in 1..Len(o.p) : o.p[i].k = k

\* o?.[k] : the value of key k, undefined when o is not an object holding k
Prop(o, k) ==
  IF HasKey(o, k)
    THEN o.p[CHOOSE i \in 1..Len(o.p) : o.p[i].k = k].v
    ELSE Undef

\* Object.entries(o)
Entries(o) == IF o.t = "obj" THEN o.p ELSE <<>>

\* the elements of an array value (none for a value that is no array)
Elems(a) == IF a.t = "arr" THEN a.e ELSE <<>>

\* array.includes(v)
Includes(a, v) == \E i \in 1..Len(Elems(a)) : StrictEq(Elems(a)[i], v)

\* seq.includes(v) on a list built by the engine
SeqIncludes(seq, v) == \E i \in 1..Len(seq) : StrictEq(seq[i], v)

\* Array.from(new Set(seq)) : first occurrences, in order
RECURSIVE Distinct(_)
Distinct(seq) ==
  IF seq = <<>> THEN <<>>
  ELSE LET front == Distinct(SubSeq(seq, 1, Len(seq) - 1))
           last == seq[Len(seq)]
       IN IF SeqIncludes(front, last) THEN front ELSE Append(front, last)

\* String(v)
RECURSIVE StringOf(_)
StringOf(v) ==
  CASE v.t = "undef" -> "undefined"
    [] v.t = "null" -> "null"
    [] v.t = "str" -> v.s
    [] v.t = "num" -> ToString(v.n)
    [] v.t = "bool" -> IF v.b THEN "true" ELSE "false"
    [] v.t = "arr" ->
         IF v.e = <<>> THEN ""
         ELSE IF Len(v.e) = 1 THEN
           (IF IsNullish(v.e[1]) THEN "" ELSE StringOf(v.e[1]))
         ELSE StringOf(Arr(SubSeq(v.e, 1, Len(v.e) - 1))) \o ","
              \o (IF IsNullish(v.e[Len(v.e)]) THEN ""
                  ELSE StringOf(v.e[Len(v.e)]))
    [] OTHER -> "[object Object]"

\* JSON.stringify(v) for a defined value
RECURSIVE JSONStringify(_)
RECURSIVE StringifyItems(_, _)
JSONStringify(v) ==
  CASE v.t = "null" -> "null"
    [] v.t = "undef" -> "null"
    [] v.t = "str" -> "\"" \o v.s \o "\""
    [] v.t = "num" -> ToString(v.n)
    [] v.t = "bool" -> IF v.b THEN "true" ELSE "false"
    [] v.t = "arr" -> "[" \o StringifyItems(v.e, FALSE) \o "]"
    [] OTHER -> "{" \o StringifyItems(v.p, TRUE) \o "}"

StringifyItems(items, keyed) ==
  IF items = <<>> THEN ""
  ELSE LET one == IF keyed
                    THEN "\"" \o Head(items).k \o "\":"
                         \o JSONStringify(Head(items).v)
                    ELSE JSONStringify(Head(items))
       IN IF Len(items) = 1 THEN one
          ELSE one \o "," \o StringifyItems(Tail(items), keyed)

(***************************************************************************)
(* Paths.                                                                  *)
(***************************************************************************)
MaxIndex == 2

\* the absent path: null
NullPath == <<>>

\* !path is false: the path is neither null nor the empty string
PathTruthy(path) == path # <<>> /\ path # <<"">>

\* parts.join(".") : joining no part gives the empty string
Join(parts) == IF parts = <<>> THEN <<"">> ELSE parts

\* !isNaN(Number(part)) : the part is a decimal index (Number("") is 0)
IsNumeric(part) == part = "" \/ \E i \in 0..MaxIndex : ToString(i) = part

\* array[parseInt(key)] : parseInt("") is NaN, which indexes nothing
ElemAt(a, key) ==
  IF key # "" /\ \E i \in 0..MaxIndex : ToString(i) = key /\ i < Len(a.e)
    THEN a.e[(CHOOSE i \in 0..MaxIndex : ToString(i) = key) + 1]
    ELSE Undef

\* the path as the string the code handles: its parts joined by "."
RECURSIVE PathString(_)
PathString(path) ==
  IF path = <<>> THEN ""
  ELSE IF Len(path) = 1 THEN path[1]
  ELSE PathString(SubSeq(path, 1, Len(path) - 1)) \o "." \o path[Len(path)]

(***************************************************************************)
(* SchemaNavigator and DependencyExtractor (fix-validation-errors.ts).     *)
(***************************************************************************)
RECURSIVE ExistsWalk(_, _, _)
ExistsWalk(pathParts, i, currentSchema) ==
  IF i > Len(pathParts) THEN TRUE
  ELSE IF IsNumeric(pathParts[i]) THEN
    IF /\ StrictEq(Prop(currentSchema, "type"), Str("array"))
       /\ Truthy(Prop(currentSchema, "items"))
      THEN ExistsWalk(pathParts, i + 1, Prop(currentSchema, "items"))
      ELSE FALSE
  ELSE LET inner == IF Truthy(Prop(currentSchema, "properties"))
                      THEN Prop(currentSchema, "properties")
                      ELSE currentSchema
       IN IF Truthy(Prop(inner, pathParts[i]))
            THEN ExistsWalk(pathParts, i + 1, Prop(inner, pathParts[i]))
            ELSE FALSE

\* the walk over the named parts alone, the array indices passed over
fieldExistsSkippingIndices(fieldPath, ff) ==
  ExistsWalk(SelectSeq(fieldPath, LAMBDA part : ~IsNumeric(part)), 1, ff)

fieldExistsInSchema(fieldPath, ff) == ExistsWalk(fieldPath, 1, ff)

\* pathString.replace(/^\./, "").split(".")
NestedKeys(pathString) ==
  IF Len(pathString) > 1 /\ pathString[1] = ""
    THEN Tail(pathString)
    ELSE pathString

RECURSIVE NestedWalk(_, _, _)
NestedWalk(keys, i, current) ==
  IF i > Len(keys) THEN current
  ELSE LET key == keys[i]
           next == IF IsNullish(current) THEN Undef
                   ELSE IF IsNumeric(key) THEN
                     (IF current.t = "arr" THEN ElemAt(current, key)
                      ELSE Undef)
                   ELSE IF current.t \in {"obj", "arr"}
                     THEN Prop(current, key)
                     ELSE Undef
       IN NestedWalk(keys, i + 1, next)

getNestedValue(obj, pathString) == NestedWalk(NestedKeys(pathString), 1, obj)

getParentPath(fieldPath) ==
  IF Len(fieldPath) <= 1 THEN NullPath
  ELSE Join(SubSeq(fieldPath, 1, Len(fieldPath) - 1))

\* A constraint locator is the sequence of its "/"-separated parts.  The
\* pattern /\/dependencies\/([^\/]+)\// matches at the leftmost part
\* "dependencies" that follows a "/" and is followed by a non-empty part and
\* one more "/"; no match (null) is the empty string, which no match gives.
DependencyMatches(schemaPath) ==
  {j \in 2..(Len(schemaPath) - 2) :
     schemaPath[j] = "dependencies" /\ schemaPath[j + 1] # ""}

findDependencyField(schemaPath) ==
  IF DependencyMatches(schemaPath) = {} THEN ""
  ELSE schemaPath[(CHOOSE j \in DependencyMatches(schemaPath) :
                     \A k \in DependencyMatches(schemaPath) : j <= k) + 1]

\* schemaPath.includes("/" + keyword) : some part after a "/" begins with the
\* keyword; the locators' parts are schema keywords, property names and
\* indices, of which only the keyword itself begins with it
LocatorIncludes(schemaPath, keyword) ==
  \E j \in 2..Len(schemaPath) : schemaPath[j] = keyword

\* the outcome of reading a property of undefined: a TypeError is raised
Thrown == [t |-> "thrown"]

\* SchemaWalk that never descends into the items of an array
RECURSIVE SchemaWalkPastIndex(_, _, _)
SchemaWalkPastIndex(parts, i, currentSchema) ==
  IF i > Len(parts) THEN currentSchema
  ELSE IF IsNullish(currentSchema) THEN Thrown
  ELSE IF IsNumeric(parts[i]) THEN
    SchemaWalkPastIndex(parts, i + 1, currentSchema)
  ELSE LET inner == IF /\ StrictEq(Prop(currentSchema, "type"), Str("object"))
                       /\ Truthy(Prop(currentSchema, "properties"))
                      THEN Prop(currentSchema, "properties")
                      ELSE currentSchema
       IN IF Truthy(Prop(inner, parts[i]))
            THEN SchemaWalkPastIndex(parts, i + 1, Prop(inner, parts[i]))
            ELSE Null

RECURSIVE SchemaWalk(_, _, _)
SchemaWalk(parts, i, currentSchema) ==
  IF i > Len(parts) THEN currentSchema
  ELSE IF IsNullish(currentSchema) THEN Thrown
  ELSE IF IsNumeric(parts[i]) THEN
    SchemaWalk(parts, i + 1,
               IF /\ StrictEq(Prop(currentSchema, "type"), Str("array"))
                  /\ Truthy(Prop(currentSchema, "items"))
                 THEN Prop(currentSchema, "items")
                 ELSE currentSchema)
  ELSE LET inner == IF /\ StrictEq(Prop(currentSchema, "type"), Str("object"))
                       /\ Truthy(Prop(currentSchema, "properties"))
                      THEN Prop(currentSchema, "properties")
                      ELSE currentSchema
       IN IF Truthy(Prop(inner, parts[i]))
            THEN SchemaWalk(parts, i + 1, Prop(inner, parts[i]))
            ELSE Null

getSchemaForPath(sch, parentPath) ==
  IF ~PathTruthy(parentPath) THEN Prop(sch, "properties")
  ELSE SchemaWalk(parentPath, 1, Prop(sch, "properties"))

formatValue(value) ==
  CASE value.t = "null" -> "null"
    [] value.t = "str" /\ value.s = "" -> "<empty string>"
    [] value.t = "undef" -> "<not set>"
    [] value.t = "bool" -> IF value.b THEN "true" ELSE "false"
    [] value.t = "arr" -> JSONStringify(value)
    [] OTHER -> StringOf(value)

RECURSIVE LabelWalk(_, _, _)
LabelWalk(fieldPath, i, currentSchema) ==
  IF i > Len(fieldPath) THEN
    (IF Truthy(Prop(currentSchema, "title")) THEN Prop(currentSchema, "title")
     ELSE Str(PathString(fieldPath)))
  ELSE IF IsNumeric(fieldPath[i]) THEN
    IF /\ StrictEq(Prop(currentSchema, "type"), Str("array"))
       /\ Truthy(Prop(currentSchema, "items"))
      THEN LabelWalk(fieldPath, i + 1, Prop(currentSchema, "items"))
      ELSE Str(PathString(fieldPath))
  ELSE LET inner == IF Truthy(Prop(currentSchema, "properties"))
                      THEN Prop(currentSchema, "properties")
                      ELSE currentSchema
       IN IF Truthy(Prop(inner, fieldPath[i]))
            THEN LabelWalk(fieldPath, i + 1, Prop(inner, fieldPath[i]))
            ELSE Str(PathString(fieldPath))

getFieldLabel(fieldPath, ff) ==
  IF ~PathTruthy(fieldPath) THEN Undef ELSE LabelWalk(fieldPath, 1, ff)

(***************************************************************************)
(* ForwardResolver: checkNestedRequiredFields and findAllRequiredFields.   *)
(***************************************************************************)
\* the concatenation of a list of lists (what a loop of push(...) builds)
RECURSIVE Flatten(_)
Flatten(lists) ==
  IF Len(lists) = 0 THEN <<>>
  ELSE Flatten(SubSeq(lists, 1, Len(lists) - 1)) \o lists[Len(lists)]

Suggestion(field, currentValue, allowedValues, isRequired, title) ==
  [field |-> field, currentValue |-> currentValue,
   allowedValues |-> allowedValues, isRequired |-> isRequired,
   title |-> title]

\* `${nestedFieldPath}[${index}].${itemFieldName}` : the index is written in
\* brackets onto the array's own part
ItemFieldPath(nestedFieldPath, index, itemFieldName) ==
  SubSeq(nestedFieldPath, 1, Len(nestedFieldPath) - 1)
  \o <<nestedFieldPath[Len(nestedFieldPath)] \o "[" \o ToString(index) \o "]",
       itemFieldName>>

\* lines 286-325: the required leaves of one array element
ItemSuggestions(ff, nestedFieldPath, itemSchema, item, index) ==
  LET itemRequired == IF Truthy(Prop(itemSchema, "required"))
                        THEN Prop(itemSchema, "required") ELSE Arr(<<>>)
      fields == IF Truthy(Prop(itemSchema, "properties"))
                  THEN Entries(Prop(itemSchema, "properties")) ELSE <<>>
      One(itemFieldName, itemFieldSchema) ==
        LET itemFieldPath == ItemFieldPath(nestedFieldPath, index,
                                           itemFieldName)
            itemFieldValue == Prop(item, itemFieldName)
            type == Prop(itemFieldSchema, "type")
            allowedValues ==
              IF StrictEq(type, Str("number")) THEN <<Str("(a number)")>>
              ELSE IF StrictEq(type, Str("string")) THEN <<Str("(a string)")>>
              ELSE IF StrictEq(type, Str("boolean"))
                THEN <<Str("true or false")>>
              ELSE <<Str("(value required)")>>
        IN IF /\ Includes(itemRequired, Str(itemFieldName))
              /\ \/ IsNullish(itemFieldValue)
                 \/ StrictEq(itemFieldValue, Str(""))
              /\ fieldExistsInSchema(itemFieldPath, ff)
             THEN <<Suggestion(itemFieldPath, Str(formatValue(itemFieldValue)),
                               allowedValues, TRUE,
                               Prop(itemFieldSchema, "title"))>>
             ELSE <<>>
  IN Flatten([k \in 1..Len(fields) |-> One(fields[k].k, fields[k].v)])

\* ReportsEnumLeaf without the test of `required`
ReportsEnumLeafUnrequired(enum, nestedFieldValue, isRequired) ==
  ~Includes(enum, nestedFieldValue) \/ nestedFieldValue.t = "undef"

\* lines 209-211: an enum-constrained sub-property is reported when its
\* value is not valid and `required` lists it
ReportsEnumLeaf(enum, nestedFieldValue, isRequired) ==
  /\ ~Includes(enum, nestedFieldValue) \/ nestedFieldValue.t = "undef"
  /\ isRequired

\* lines 202-327: what one sub-property of the object contributes
NestedFieldSuggestions(ff, nestedFieldName, nestedFieldSchema, propPath, nestedData, nestedRequired) ==
  LET nestedFieldPath == Append(propPath, nestedFieldName)
      nestedFieldValue == Prop(nestedData, nestedFieldName)
      isRequired == Includes(nestedRequired, Str(nestedFieldName))
      enum == Prop(nestedFieldSchema, "enum")
      type == Prop(nestedFieldSchema, "type")
      title == Prop(nestedFieldSchema, "title")
      minItems == Prop(nestedFieldSchema, "minItems")
      maxItems == Prop(nestedFieldSchema, "maxItems")
      items == Prop(nestedFieldSchema, "items")
      length == Len(Elems(nestedFieldValue))
      placeholder ==
        IF StrictEq(type, Str("number")) THEN <<Str("<a number>")>>
        ELSE IF StrictEq(type, Str("string")) THEN <<Str("<a string>")>>
        ELSE IF StrictEq(type, Str("array")) THEN
          (IF Truthy(minItems)
             THEN <<Str("at least " \o StringOf(minItems) \o " items")>>
             ELSE <<Str("<an array>")>>)
        ELSE <<Str("<value required>")>>
      leaf ==
        IF Truthy(enum) THEN
          (IF ReportsEnumLeaf(enum, nestedFieldValue, isRequired)
             THEN <<Suggestion(nestedFieldPath,
                               IF nestedFieldValue.t # "undef"
                                 THEN nestedFieldValue ELSE Str("<not set>"),
                               Elems(enum), TRUE, title)>>
             ELSE <<>>)
        ELSE IF isRequired /\ nestedFieldValue.t = "undef"
          THEN <<Suggestion(nestedFieldPath, Str("<not set>"), placeholder,
                            TRUE, title)>>
        ELSE <<>>
      current == Str("array with " \o ToString(length) \o " items")
      tooFew ==
        IF Truthy(minItems) /\ length < minItems.n
          THEN <<Suggestion(nestedFieldPath, current,
                   <<Str("at least " \o StringOf(minItems) \o " items")>>,
                   TRUE, title)>>
          ELSE <<>>
      tooMany ==
        IF Truthy(maxItems) /\ length > maxItems.n
          THEN <<Suggestion(nestedFieldPath, current,
                   <<Str("at most " \o StringOf(maxItems) \o " items")>>,
                   TRUE, title)>>
          ELSE <<>>
      perItem ==
        IF Truthy(items) /\ items.t \in {"obj", "arr"}
          THEN Flatten([n \in 1..length |->
                 ItemSuggestions(ff, nestedFieldPath, items,
                                 nestedFieldValue.e[n], n - 1)])
          ELSE <<>>
  IN leaf \o (IF StrictEq(type, Str("array")) /\ nestedFieldValue.t = "arr"
                THEN tooFew \o tooMany \o perItem
                ELSE <<>>)

\* checkNestedRequiredFields as the earlier variant of the engine wrote it:
\* a sub-property the UI schema does not hold is not reported
checkNestedRequiredFieldsVisible(ff, propName, propSchema, propPath, propValue) ==
  IF /\ StrictEq(Prop(propSchema, "type"), Str("object"))
     /\ Truthy(Prop(propSchema, "properties"))
    THEN LET nestedRequired == IF Truthy(Prop(propSchema, "required"))
                                 THEN Prop(propSchema, "required")
                                 ELSE Arr(<<>>)
             nestedData == IF Truthy(propValue) THEN propValue ELSE Obj(<<>>)
             fields == Entries(Prop(propSchema, "properties"))
         IN SelectSeq(
              Flatten([k \in 1..Len(fields) |->
                NestedFieldSuggestions(ff, fields[k].k, fields[k].v, propPath,
                                       nestedData, nestedRequired)]),
              LAMBDA sg : fieldExistsInSchema(sg.field, ff))
    ELSE <<>>

\* the suggestions the call pushes onto its `suggestions` argument, in order
checkNestedRequiredFields(ff, propName, propSchema, propPath, propValue) ==
  IF /\ StrictEq(Prop(propSchema, "type"), Str("object"))
     /\ Truthy(Prop(propSchema, "properties"))
    THEN LET nestedRequired == IF Truthy(Prop(propSchema, "required"))
                                 THEN Prop(propSchema, "required")
                                 ELSE Arr(<<>>)
             nestedData == IF Truthy(propValue) THEN propValue ELSE Obj(<<>>)
             fields == Entries(Prop(propSchema, "properties"))
         IN Flatten([k \in 1..Len(fields) |->
              NestedFieldSuggestions(ff, fields[k].k, fields[k].v, propPath,
                                     nestedData, nestedRequired)])
    ELSE <<>>

\* lines 466-527: what one property of the matching branch contributes
BranchPropertySuggestions(ff, depFieldName, propName, propSchema, parentData, parentPath, topLevelRequired) ==
  LET propPath == IF PathTruthy(parentPath)
                    THEN Append(parentPath, propName) ELSE <<propName>>
      propValue == Prop(parentData, propName)
      enum == Prop(propSchema, "enum")
      type == Prop(propSchema, "type")
      title == IF Truthy(Prop(propSchema, "title"))
                 THEN Prop(propSchema, "title") ELSE Str(propName)
      placeholder ==
        IF StrictEq(type, Str("number")) THEN <<Str("<a number>")>>
        ELSE IF StrictEq(type, Str("array")) THEN <<Str("<an array>")>>
        ELSE IF StrictEq(type, Str("string")) THEN <<Str("<a string>")>>
        ELSE <<Str("<value required>")>>
  IN IF propName = depFieldName THEN <<>>
     ELSE IF Truthy(enum) THEN
       (IF /\ ~Includes(enum, propValue) \/ propValue.t = "undef"
           /\ fieldExistsInSchema(propPath, ff)
          THEN <<Suggestion(propPath,
                            IF propValue.t # "undef" THEN propValue
                            ELSE Str("<not set>"),
                            Elems(enum),
                            Includes(topLevelRequired, Str(propName)),
                            title)>>
          ELSE <<>>)
     ELSE IF StrictEq(type, Str("object")) THEN
       checkNestedRequiredFields(ff, propName, propSchema, propPath, propValue)
     ELSE IF /\ Includes(topLevelRequired, Str(propName))
             /\ propValue.t = "undef"
             /\ fieldExistsInSchema(propPath, ff)
       THEN <<Suggestion(propPath, Str("<not set>"), placeholder, TRUE, title)>>
     ELSE <<>>

\* depRule.oneOf.find(...) : the first branch whose enum for the trigger
\* field includes the trigger's value; undefined when there is none
MatchingBranches(depRule, depFieldName, depValue) ==
  {b \in 1..Len(Elems(Prop(depRule, "oneOf"))) :
     LET enumValues == Prop(Prop(Prop(Elems(Prop(depRule, "oneOf"))[b],
                                      "properties"), depFieldName), "enum")
     IN Truthy(enumValues) /\ Includes(enumValues, depValue)}

MatchingSchema(depRule, depFieldName, depValue) ==
  IF MatchingBranches(depRule, depFieldName, depValue) = {} THEN Undef
  ELSE Elems(Prop(depRule, "oneOf"))[
         CHOOSE b \in MatchingBranches(depRule, depFieldName, depValue) :
           \A c \in MatchingBranches(depRule, depFieldName, depValue) : b <= c]

\* `${parentPath || "root"}.${depFieldName}:${JSON.stringify(depValue)}`
VisitKey(parentPath, depFieldName, depValue) ==
  (IF PathTruthy(parentPath) THEN PathString(parentPath) ELSE "root")
  \o "." \o depFieldName \o ":" \o JSONStringify(depValue)

\* The call's result and the visited set it leaves behind (the set is one
\* object shared by the whole recursion): [suggestions, visited, log].  The
\* log lists the visit keys in the order visited.add() took them, a nested
\* call's part of it between "(" and ")".
RECURSIVE FindAllRequired(_, _, _, _, _)
RECURSIVE DependencyLoop(_, _, _, _, _, _, _)
RECURSIVE CascadeLoop(_, _, _, _, _, _, _, _)

\* CascadeLoop with a visited set of its own for every recursive call: what
\* the nested call added is forgotten when it returns
RECURSIVE CascadeLoopOwnVisited(_, _, _, _, _, _, _, _)
CascadeLoopOwnVisited(ff, parentSchema, parentData, parentPath, depFieldName, fields, k, acc) ==
  IF k > Len(fields) THEN acc
  ELSE IF /\ fields[k].v.t # "undef"
          /\ Truthy(Prop(Prop(parentSchema, "dependencies"), fields[k].k))
          /\ fields[k].k # depFieldName
    THEN LET nested == FindAllRequired(ff, parentSchema, parentData,
                                       parentPath, acc.visited)
         IN CascadeLoopOwnVisited(ff, parentSchema, parentData, parentPath,
              depFieldName, fields, k + 1,
              [suggestions |-> acc.suggestions \o nested.suggestions,
               visited |-> acc.visited,
               log |-> acc.log \o <<"(">> \o nested.log \o <<")">>])
    ELSE CascadeLoopOwnVisited(ff, parentSchema, parentData, parentPath,
                               depFieldName, fields, k + 1, acc)

\* CascadeLoop that puts what the nested call returns in front of the list
RECURSIVE CascadeLoopPrepending(_, _, _, _, _, _, _, _)
CascadeLoopPrepending(ff, parentSchema, parentData, parentPath, depFieldName, fields, k, acc) ==
  IF k > Len(fields) THEN acc
  ELSE IF /\ fields[k].v.t # "undef"
          /\ Truthy(Prop(Prop(parentSchema, "dependencies"), fields[k].k))
          /\ fields[k].k # depFieldName
    THEN LET nested == FindAllRequired(ff, parentSchema, parentData,
                                       parentPath, acc.visited)
         IN CascadeLoopPrepending(ff, parentSchema, parentData, parentPath,
              depFieldName, fields, k + 1,
              [suggestions |-> nested.suggestions \o acc.suggestions,
               visited |-> nested.visited,
               log |-> acc.log \o <<"(">> \o nested.log \o <<")">>])
    ELSE CascadeLoopPrepending(ff, parentSchema, parentData, parentPath,
                               depFieldName, fields, k + 1, acc)

\* lines 531-548: one recursive call per other field of the data that has a
\* dependency rule of its own
CascadeLoop(ff, parentSchema, parentData, parentPath, depFieldName, fields, k, acc) ==
  IF k > Len(fields) THEN acc
  ELSE IF /\ fields[k].v.t # "undef"
          /\ Truthy(Prop(Prop(parentSchema, "dependencies"), fields[k].k))
          /\ fields[k].k # depFieldName
    THEN LET nested == FindAllRequired(ff, parentSchema, parentData,
                                       parentPath, acc.visited)
         IN CascadeLoop(ff, parentSchema, parentData, parentPath,
                        depFieldName, fields, k + 1,
                        [suggestions |-> acc.suggestions \o nested.suggestions,
                         visited |-> nested.visited,
                         log |-> acc.log \o <<"(">> \o nested.log \o <<")">>])
    ELSE CascadeLoop(ff, parentSchema, parentData, parentPath, depFieldName,
                     fields, k + 1, acc)

\* lines 440-551: the loop over the dependency rules of the parent
DependencyLoop(ff, parentSchema, parentData, parentPath, deps, d, acc) ==
  IF d > Len(deps) THEN acc
  ELSE
    LET depFieldName == deps[d].k
        depRule == deps[d].v
        depValue == Prop(parentData, depFieldName)
        visitKey == VisitKey(parentPath, depFieldName, depValue)
        marked == [acc EXCEPT !.visited = @ \cup {visitKey},
                              !.log = Append(@, visitKey)]
        matchingSchema == MatchingSchema(depRule, depFieldName, depValue)
        topLevelRequired == IF Truthy(Prop(matchingSchema, "required"))
                              THEN Prop(matchingSchema, "required")
                              ELSE Arr(<<>>)
        props == Entries(Prop(matchingSchema, "properties"))
        direct == Flatten([k \in 1..Len(props) |->
                    BranchPropertySuggestions(ff, depFieldName, props[k].k,
                      props[k].v, parentData, parentPath, topLevelRequired)])
        withDirect == [marked EXCEPT !.suggestions = @ \o direct]
        fields == IF Truthy(parentData) THEN Entries(parentData) ELSE <<>>
    IN IF depValue.t = "undef" THEN
         DependencyLoop(ff, parentSchema, parentData, parentPath, deps, d + 1,
                        acc)
       ELSE IF visitKey \in acc.visited THEN
         DependencyLoop(ff, parentSchema, parentData, parentPath, deps, d + 1,
                        acc)
       ELSE IF ~Truthy(Prop(depRule, "oneOf")) \/ ~Truthy(matchingSchema) THEN
         DependencyLoop(ff, parentSchema, parentData, parentPath, deps, d + 1,
                        marked)
       ELSE
         DependencyLoop(ff, parentSchema, parentData, parentPath, deps, d + 1,
                        CascadeLoop(ff, parentSchema, parentData, parentPath,
                                    depFieldName, fields, 1, withDirect))

FindAllRequired(ff, parentSchema, parentData, parentPath, visited) ==
  IF ~Truthy(parentSchema) \/ ~Truthy(Prop(parentSchema, "dependencies"))
    THEN [suggestions |-> <<>>, visited |-> visited, log |-> <<>>]
    ELSE DependencyLoop(ff, parentSchema, parentData, parentPath,
                        Entries(Prop(parentSchema, "dependencies")), 1,
                        [suggestions |-> <<>>, visited |-> visited,
                         log |-> <<>>])

\* a top-level call: visited defaults to a new, empty Set
findAllRequiredFields(ff, parentSchema, parentData, parentPath) ==
  FindAllRequired(ff, parentSchema, parentData, parentPath, {}).suggestions

(***************************************************************************)
(* ReverseResolver: findReverseDependencies.                               *)
(***************************************************************************)
\* lines 367-385: the trigger values of the branches that admit the error
\* field's current value
RECURSIVE ValidTriggerValues(_, _, _, _)
ValidTriggerValues(branches, depFieldName, errorFieldName, errorFieldValue) ==
  IF branches = <<>> THEN <<>>
  ELSE
    LET branch == branches[Len(branches)]
        branchProperties == IF Truthy(Prop(branch, "properties"))
                              THEN Prop(branch, "properties") ELSE Obj(<<>>)
        fieldSchema == Prop(branchProperties, errorFieldName)
        triggerSchema == Prop(branchProperties, depFieldName)
        before == ValidTriggerValues(SubSeq(branches, 1, Len(branches) - 1),
                    depFieldName, errorFieldName, errorFieldValue)
    IN IF /\ Truthy(fieldSchema)
          /\ Truthy(Prop(fieldSchema, "enum"))
          /\ Includes(Prop(fieldSchema, "enum"), errorFieldValue)
          /\ Truthy(Prop(triggerSchema, "enum"))
          /\ Len(Elems(Prop(triggerSchema, "enum"))) > 0
         THEN before \o Elems(Prop(triggerSchema, "enum"))
         ELSE before

\* lines 358-412: what one dependency rule contributes
ReverseForRule(ff, errorFieldName, errorFieldValue, depFieldName, depRule, parentPath, parentData) ==
  LET validTriggerValues ==
        ValidTriggerValues(Elems(Prop(depRule, "oneOf")), depFieldName,
                           errorFieldName, errorFieldValue)
      triggerFieldPath == IF PathTruthy(parentPath)
                            THEN Append(parentPath, depFieldName)
                            ELSE <<depFieldName>>
      currentTriggerValue == Prop(parentData, depFieldName)
  IN IF /\ Truthy(Prop(depRule, "oneOf"))
        /\ depFieldName # errorFieldName
        /\ Len(validTriggerValues) > 0
        /\ fieldExistsInSchema(triggerFieldPath, ff)
        /\ ~SeqIncludes(validTriggerValues, currentTriggerValue)
       THEN <<Suggestion(triggerFieldPath, Str(StringOf(currentTriggerValue)),
                         validTriggerValues, TRUE,
                         getFieldLabel(triggerFieldPath, ff))>>
       ELSE <<>>

findReverseDependencies(ff, errorFieldPath, errorFieldValue, parentSchema, parentPath, parentData) ==
  LET deps == Entries(Prop(parentSchema, "dependencies"))
      errorFieldName == errorFieldPath[Len(errorFieldPath)]
  IN IF ~Truthy(Prop(parentSchema, "dependencies")) \/ errorFieldName = ""
       THEN <<>>
       ELSE Flatten([d \in 1..Len(deps) |->
              ReverseForRule(ff, errorFieldName, errorFieldValue, deps[d].k,
                             deps[d].v, parentPath, parentData)])

(***************************************************************************)
(* analyzeDependencyError.                                                 *)
(* A mapped error is [fieldPath, message, originalError], originalError    *)
(* being [schemaPath, params, stack]: schemaPath the locator's parts       *)
(* (<<"">> when the error has none), params a JSON value, stack the        *)
(* pieces of the stack text between its "'" marks (<<>> when absent).      *)
(***************************************************************************)
AnalysisResult(triggerField, triggerValue, errorField, currentValue, suggestions) ==
  [triggerField |-> triggerField, triggerValue |-> triggerValue,
   errorField |-> errorField, currentValue |-> currentValue,
   suggestions |-> suggestions]

\* message.includes("fewer than") : the validator's minItems message
FewerThanMessage == "must NOT have fewer than 1 items"

MessageIncludesFewerThan(message) == message = FewerThanMessage

\* error.originalError.stack?.split("'")[1] || undefined
StackTitle(stack) ==
  IF Len(stack) >= 2 /\ stack[2] # "" THEN Str(stack[2]) ELSE Undef

\* fieldPath.replace(testPath + ".", "").split(".") where testPath is the
\* first i parts of fieldPath: the prefix goes; with the empty testPath the
\* first "." goes, which runs the first two parts together
ErrorFieldParts(fieldPath, i) ==
  IF i > 0 THEN SubSeq(fieldPath, i + 1, Len(fieldPath))
  ELSE IF Len(fieldPath) >= 2
    THEN <<fieldPath[1] \o fieldPath[2]>> \o SubSeq(fieldPath, 3, Len(fieldPath))
  ELSE fieldPath

\* lines 692-702
RECURSIVE BranchSchemaWalk(_, _, _)
BranchSchemaWalk(errorFieldParts, k, branchSchema) ==
  IF k > Len(errorFieldParts) THEN branchSchema
  ELSE IF Truthy(Prop(branchSchema, errorFieldParts[k])) THEN
    BranchSchemaWalk(errorFieldParts, k + 1,
                     Prop(branchSchema, errorFieldParts[k]))
  ELSE IF Truthy(Prop(Prop(branchSchema, "properties"), errorFieldParts[k]))
    THEN BranchSchemaWalk(errorFieldParts, k + 1,
           Prop(Prop(branchSchema, "properties"), errorFieldParts[k]))
  ELSE Null

\* AlternativeTriggerValues with the trigger's current value left in
AlternativeTriggerValuesAll(altBranch, depKey, triggerValue, errorFieldParts, currentValue) ==
  LET altBranchDepValue == Prop(Prop(altBranch, "properties"), depKey)
      branchSchema == BranchSchemaWalk(errorFieldParts, 1,
                                       Prop(altBranch, "properties"))
  IN IF /\ Truthy(Prop(altBranchDepValue, "enum"))
        /\ \/ ~Truthy(branchSchema)
           \/ ~Truthy(Prop(branchSchema, "minItems"))
           \/ Prop(branchSchema, "minItems").n <= Len(Elems(currentValue))
       THEN Elems(Prop(altBranchDepValue, "enum"))
       ELSE <<>>

\* lines 677-729: the allowedValues of the reverse suggestions, one value per
\* suggestion, in the order they are pushed
AlternativeTriggerValues(altBranch, depKey, triggerValue, errorFieldParts, currentValue) ==
  LET altBranchDepValue == Prop(Prop(altBranch, "properties"), depKey)
      branchSchema == BranchSchemaWalk(errorFieldParts, 1,
                                       Prop(altBranch, "properties"))
      branchAllowsCurrentValue ==
        \/ ~Truthy(branchSchema)
        \/ ~Truthy(Prop(branchSchema, "minItems"))
        \/ Prop(branchSchema, "minItems").n <= Len(Elems(currentValue))
      enum == Elems(Prop(altBranchDepValue, "enum"))
  IN IF Truthy(Prop(altBranchDepValue, "enum")) /\ branchAllowsCurrentValue
       THEN SelectSeq(enum, LAMBDA v : ~StrictEq(v, triggerValue))
       ELSE <<>>

\* the forward suggestions, the one on the error field among them
EveryFieldSuggestions(forwardSuggestions, fieldPath) == forwardSuggestions

\* lines 656-659: the forward suggestions on other fields than the error's
OtherFieldSuggestions(forwardSuggestions, fieldPath) ==
  SelectSeq(forwardSuggestions, LAMBDA sg : sg.field # fieldPath)

\* lines 661-670: the forward result, when suggestions for other fields remain
ForwardResult(triggerFieldPath, triggerValue, fieldPath, currentValue, otherFieldSuggestions) ==
  IF Len(otherFieldSuggestions) > 0
    THEN <<AnalysisResult(triggerFieldPath, triggerValue, fieldPath,
                          currentValue, otherFieldSuggestions)>>
    ELSE <<>>

\* lines 731-750: the reverse suggestions consolidated into one
ReverseResult(ff, triggerFieldPath, triggerValue, fieldPath, currentValue, reverseValues) ==
  IF Len(reverseValues) > 0
    THEN <<AnalysisResult(NullPath, Undef, fieldPath, currentValue,
             <<Suggestion(triggerFieldPath, Str(StringOf(triggerValue)),
                          Distinct(reverseValues), TRUE,
                          getFieldLabel(triggerFieldPath, ff))>>)>>
    ELSE <<>>

\* lines 600-755: the results the loop body builds for one branch of one
\* dependency rule of testSchema (none when the branch is not the active one)
ArrayConstraintResults(error, currentValue, ff, i, testPath, parentData, depKey, depRules, branch) ==
  LET fieldPath == error.fieldPath
      triggerValue == Prop(parentData, depKey)
      branchDepValue == Prop(Prop(branch, "properties"), depKey)
      triggerFieldPath == IF PathTruthy(testPath)
                            THEN Append(testPath, depKey) ELSE <<depKey>>
      limit == Prop(error.originalError.params, "limit")
      own == IF /\ limit.t # "undef"
                /\ currentValue.t = "arr"
                /\ fieldExistsInSchema(fieldPath, ff)
               THEN <<Suggestion(fieldPath,
                        Str("array with " \o ToString(Len(currentValue.e))
                            \o " items"),
                        <<Str("at least " \o StringOf(limit) \o " items")>>,
                        TRUE, StackTitle(error.originalError.stack))>>
               ELSE <<>>
      props == IF Truthy(Prop(branch, "properties"))
                 THEN Entries(Prop(branch, "properties")) ELSE <<>>
      OfProperty(propName, propSchema) ==
        IF propName = depKey THEN <<>>
        ELSE checkNestedRequiredFields(ff, propName, propSchema,
               IF PathTruthy(testPath) THEN Append(testPath, propName)
               ELSE <<propName>>,
               Prop(parentData, propName))
      forwardSuggestions ==
        own \o Flatten([k \in 1..Len(props) |->
                 OfProperty(props[k].k, props[k].v)])
      branches == Elems(Prop(depRules, "oneOf"))
      reverseValues ==
        Flatten([b \in 1..Len(branches) |->
          AlternativeTriggerValues(branches[b], depKey, triggerValue,
            ErrorFieldParts(fieldPath, i), currentValue)])
  IN IF /\ Truthy(Prop(branchDepValue, "enum"))
        /\ Includes(Prop(branchDepValue, "enum"), triggerValue)
       THEN ForwardResult(triggerFieldPath, triggerValue, fieldPath,
              currentValue,
              OtherFieldSuggestions(forwardSuggestions, fieldPath))
            \o ReverseResult(ff, triggerFieldPath, triggerValue, fieldPath,
                 currentValue, reverseValues)
       ELSE <<>>

\* lines 592-758: the results of the branches of the dependency rules of
\* testSchema, in the order the loops visit them
LevelResults(error, currentValue, ff, i, testPath, testSchema, parentData) ==
  LET deps == IF Truthy(Prop(testSchema, "dependencies"))
                THEN Entries(Prop(testSchema, "dependencies")) ELSE <<>>
      BranchesOf(depKey, depRules) ==
        [b \in 1..Len(Elems(Prop(depRules, "oneOf"))) |->
           ArrayConstraintResults(error, currentValue, ff, i, testPath,
             parentData, depKey, depRules,
             Elems(Prop(depRules, "oneOf"))[b])]
  IN Flatten([d \in 1..Len(deps) |-> BranchesOf(deps[d].k, deps[d].v)])

\* lines 752-754: the first results that are not empty are returned
FirstNonEmpty(perBranch) ==
  LET returning == {c \in 1..Len(perBranch) : Len(perBranch[c]) > 0}
  IN IF returning = {} THEN <<>>
     ELSE perBranch[CHOOSE c \in returning : \A e \in returning : c <= e]

\* one round of the loop of line 581: a TypeError in getSchemaForPath, the
\* results returned from this ancestor, or what the further rounds give
LevelOutcome(testSchema, results, further) ==
  IF testSchema.t = "thrown" THEN [thrown |-> TRUE, results |-> <<>>]
  ELSE IF Len(results) > 0 THEN [thrown |-> FALSE, results |-> results]
  ELSE further

\* the results of the ancestor made of the first i parts of the field path
AncestorResults(error, currentValue, ff, i, testPath, testSchema, fd) ==
  IF testSchema.t = "thrown" THEN <<>>
  ELSE FirstNonEmpty(
         LevelResults(error, currentValue, ff, i, testPath, testSchema,
                      IF PathTruthy(testPath)
                        THEN getNestedValue(fd, testPath) ELSE fd))

\* lines 581-760: the ancestors of the field, nearest first.  The outcome is
\* [thrown, results]: the first non-empty results are returned at once; no
\* results means the loop ran to its end.
RECURSIVE ArrayConstraintLevels(_, _, _, _, _, _)
ArrayConstraintLevels(error, fd, sch, ff, currentValue, i) ==
  IF i < 0 THEN [thrown |-> FALSE, results |-> <<>>]
  ELSE
    LevelOutcome(
      getSchemaForPath(sch, Join(SubSeq(error.fieldPath, 1, i))),
      AncestorResults(error, currentValue, ff, i,
        Join(SubSeq(error.fieldPath, 1, i)),
        getSchemaForPath(sch, Join(SubSeq(error.fieldPath, 1, i))), fd),
      ArrayConstraintLevels(error, fd, sch, ff, currentValue, i - 1))

\* DependencyResults without the filter on the error field itself
DependencyResultsUnfiltered(ff, fieldPath, currentValue, triggerField, triggerValue, allSuggestions, reverseSuggestions) ==
  (IF Len(allSuggestions) > 0
     THEN <<AnalysisResult(triggerField, triggerValue, fieldPath,
                           currentValue, allSuggestions)>>
     ELSE <<>>)
  \o (IF Len(reverseSuggestions) > 0
        THEN <<AnalysisResult(NullPath, Undef, fieldPath, currentValue,
                              reverseSuggestions)>>
        ELSE <<>>)

\* lines 839-888 and 789-836: the results built from the forward list and the
\* reverse lookup, once the forward list is not empty
DependencyResults(ff, fieldPath, currentValue, triggerField, triggerValue, allSuggestions, reverseSuggestions) ==
  LET otherFieldSuggestions ==
        SelectSeq(allSuggestions, LAMBDA sg : sg.field # fieldPath)
  IN (IF Len(otherFieldSuggestions) > 0
        THEN <<AnalysisResult(triggerField, triggerValue, fieldPath,
                              currentValue, otherFieldSuggestions)>>
        ELSE <<>>)
     \o (IF Len(reverseSuggestions) > 0
           THEN <<AnalysisResult(NullPath, Undef, fieldPath, currentValue,
                                 reverseSuggestions)>>
           ELSE <<>>)

NotReturned == [thrown |-> FALSE, returned |-> FALSE, results |-> <<>>]

\* DependencyOutcome that returns only when it has results, and lets the
\* function go on to the simple results otherwise
DependencyOutcomeWithResults(ff, fieldPath, currentValue, triggerField, triggerValue, allSuggestions, reverseSuggestions) ==
  IF Len(DependencyResults(ff, fieldPath, currentValue, triggerField,
                           triggerValue, allSuggestions,
                           reverseSuggestions)) > 0
    THEN [thrown |-> FALSE, returned |-> TRUE,
          results |-> DependencyResults(ff, fieldPath, currentValue,
                        triggerField, triggerValue, allSuggestions,
                        reverseSuggestions)]
    ELSE NotReturned

\* lines 796-836 and 848-888: the block returns its results once the forward
\* list is not empty
DependencyOutcome(ff, fieldPath, currentValue, triggerField, triggerValue, allSuggestions, reverseSuggestions) ==
  IF Len(allSuggestions) > 0
    THEN [thrown |-> FALSE, returned |-> TRUE,
          results |-> DependencyResults(ff, fieldPath, currentValue,
                        triggerField, triggerValue, allSuggestions,
                        reverseSuggestions)]
    ELSE NotReturned

\* the schema, data and path the block analyses: those of the parent when the
\* parent holds the dependency rule (lines 839-846), those of the product
\* under it when that one has dependencies (lines 781-794), else none
DependencyTarget(parentSchema, parentData, parentPath, dependencyField, triggerField) ==
  LET productSchema == Prop(Prop(parentSchema, "properties"), dependencyField)
  IN IF Truthy(Prop(Prop(parentSchema, "dependencies"), dependencyField))
       THEN [found |-> TRUE, schema |-> parentSchema, data |-> parentData,
             path |-> parentPath]
     ELSE IF /\ Truthy(Prop(parentSchema, "properties"))
             /\ Truthy(productSchema)
             /\ Truthy(Prop(productSchema, "dependencies"))
       THEN [found |-> TRUE, schema |-> productSchema,
             data |-> Prop(parentData, dependencyField),
             path |-> triggerField]
     ELSE [found |-> FALSE, schema |-> Undef, data |-> Undef,
           path |-> NullPath]

\* lines 789-836 and 841-888 on the target
TargetOutcome(ff, fieldPath, currentValue, triggerField, triggerValue, target) ==
  IF ~target.found THEN NotReturned
  ELSE DependencyOutcome(ff, fieldPath, currentValue, triggerField,
         triggerValue,
         findAllRequiredFields(ff, target.schema, target.data, target.path),
         findReverseDependencies(ff, fieldPath, currentValue, target.schema,
                                 target.path, target.data))

\* lines 767-889, with the dependency field, the parent's path, data and
\* schema at hand
DependencyBlock(ff, fieldPath, currentValue, dependencyField, parentPath, parentData, parentSchema) ==
  LET triggerValue == IF Truthy(parentData)
                        THEN Prop(parentData, dependencyField) ELSE Undef
      triggerField == IF PathTruthy(parentPath)
                        THEN Append(parentPath, dependencyField)
                        ELSE <<dependencyField>>
  IN IF parentSchema.t = "thrown"
       THEN [thrown |-> TRUE, returned |-> FALSE, results |-> <<>>]
       ELSE TargetOutcome(ff, fieldPath, currentValue, triggerField,
              triggerValue,
              DependencyTarget(parentSchema, parentData, parentPath,
                               dependencyField, triggerField))

\* lines 763-890: [thrown, returned, results]; returned tells that the
\* function returned from inside this block
DependencyPath(error, fd, sch, ff, currentValue) ==
  LET fieldPath == error.fieldPath
      parentPath == getParentPath(fieldPath)
  IN IF findDependencyField(error.originalError.schemaPath) = ""
       THEN NotReturned
       ELSE DependencyBlock(ff, fieldPath, currentValue,
              findDependencyField(error.originalError.schemaPath),
              parentPath,
              IF PathTruthy(parentPath)
                THEN getNestedValue(fd, parentPath) ELSE fd,
              getSchemaForPath(sch, parentPath))

\* lines 892-935: the results for an error no dependency explains
SimpleResults(error, currentValue) ==
  LET params == error.originalError.params
      shown == IF currentValue.t # "undef" THEN currentValue
               ELSE Str("<not set>")
      length == Str("array with " \o ToString(Len(Elems(currentValue)))
                    \o " items")
  IN IF Truthy(Prop(params, "allowedValues")) THEN
       <<AnalysisResult(NullPath, Undef, error.fieldPath, shown,
           <<[field |-> error.fieldPath, currentValue |-> shown,
              allowedValues |-> Elems(Prop(params, "allowedValues")),
              isRequired |-> TRUE, title |-> Undef]>>)>>
     ELSE IF /\ Truthy(Prop(params, "limit"))
             /\ MessageIncludesFewerThan(error.message)
       THEN <<AnalysisResult(NullPath, Undef, error.fieldPath, length,
                <<[field |-> error.fieldPath, currentValue |-> length,
                   allowedValues |->
                     <<Str("at least " \o StringOf(Prop(params, "limit"))
                           \o " items")>>,
                   isRequired |-> TRUE, title |-> Undef]>>)>>
     ELSE <<>>

\* the returns of the function in their order: the array-constraint block,
\* the dependency block, the handlers of simple errors
FirstReturn(constraint, dependency, simple) ==
  IF constraint.thrown THEN [thrown |-> TRUE, results |-> <<>>]
  ELSE IF Len(constraint.results) > 0
    THEN [thrown |-> FALSE, results |-> constraint.results]
  ELSE IF dependency.thrown THEN [thrown |-> TRUE, results |-> <<>>]
  ELSE IF dependency.returned
    THEN [thrown |-> FALSE, results |-> dependency.results]
  ELSE [thrown |-> FALSE, results |-> simple]

\* lines 575-761 for the error's current value
ArrayConstraintPath(error, fd, sch, ff, currentValue) ==
  IF \/ LocatorIncludes(error.originalError.schemaPath, "minItems")
     \/ LocatorIncludes(error.originalError.schemaPath, "maxItems")
    THEN ArrayConstraintLevels(error, fd, sch, ff, currentValue,
                               Len(error.fieldPath) - 1)
    ELSE [thrown |-> FALSE, results |-> <<>>]

\* the three blocks of the function on the current value of the field
AnalyzeValue(error, fd, sch, ff, currentValue) ==
  FirstReturn(ArrayConstraintPath(error, fd, sch, ff, currentValue),
              DependencyPath(error, fd, sch, ff, currentValue),
              SimpleResults(error, currentValue))

\* [thrown, results]: the AnalysisResult list the call returns, or the
\* TypeError it raises
analyzeDependencyError(error, fd, sch, ff) ==
  AnalyzeValue(error, fd, sch, ff, getNestedValue(fd, error.fieldPath))

(***************************************************************************)
(* analyzeValidationErrors.                                                *)
(***************************************************************************)
\* hasRefs looking at the keys of the root object only
HasRefsTopLevel(obj) ==
  /\ obj.t = "obj"
  /\ \E i \in 1..Len(obj.p) : obj.p[i].k = "$ref" /\ obj.p[i].v.t = "str"

\* JSON.stringify(obj) matches /"\$ref"\s*:\s*"/ exactly when some object of
\* the document, at any depth, has the key $ref with a string value:
\* stringify writes a key as "key": with no blank, and a quote inside a
\* string is written \" so that no text of a value can match
RECURSIVE hasRefs(_)
hasRefs(obj) ==
  CASE obj.t = "obj" ->
         \E i \in 1..Len(obj.p) :
           \/ obj.p[i].k = "$ref" /\ obj.p[i].v.t = "str"
           \/ hasRefs(obj.p[i].v)
    [] obj.t = "arr" -> \E i \in 1..Len(obj.e) : hasRefs(obj.e[i])
    [] OTHER -> FALSE

\* !schema || Object.keys(schema).length === 0
SchemaMissing(sch) == ~Truthy(sch) \/ Len(Entries(sch)) = 0

\* results.push(...analysisResults), or the TypeError that ends the loop
PushResults(before, last) ==
  IF before.thrown \/ last.thrown THEN [thrown |-> TRUE, results |-> <<>>]
  ELSE [thrown |-> FALSE, results |-> before.results \o last.results]

\* lines 1064-1072: [thrown, results], the results of the errors in order
RECURSIVE AnalyzeAll(_, _, _, _)
AnalyzeAll(errors, fd, sch, ff) ==
  IF errors = <<>> THEN [thrown |-> FALSE, results |-> <<>>]
  ELSE PushResults(
         AnalyzeAll(SubSeq(errors, 1, Len(errors) - 1), fd, sch, ff),
         analyzeDependencyError(errors[Len(errors)], fd, sch, ff))

\* lines 1082-1084
DedupKey(result) ==
  IF PathTruthy(result.triggerField)
    THEN PathString(result.errorField) \o "|forward"
    ELSE PathString(result.errorField) \o "|reverse"

\* Deduplicate with deduped.set(key, result) done for every result: the last
\* result of each key, at the place of the first
RECURSIVE DeduplicateKeepLast(_)
DeduplicateKeepLast(results) ==
  IF results = <<>> THEN <<>>
  ELSE LET front == DeduplicateKeepLast(SubSeq(results, 1, Len(results) - 1))
           last == results[Len(results)]
       IN IF \E i \in 1..Len(front) : DedupKey(front[i]) = DedupKey(last)
            THEN [i \in 1..Len(front) |->
                    IF DedupKey(front[i]) = DedupKey(last) THEN last
                    ELSE front[i]]
            ELSE Append(front, last)

\* Deduplicate with a registry that outlives the call: a key that an
\* earlier call of analyzeValidationErrors returned counts as seen
RECURSIVE DeduplicateAcrossCalls(_)
DeduplicateAcrossCalls(results) ==
  IF results = <<>> THEN <<>>
  ELSE LET front == DeduplicateAcrossCalls(SubSeq(results, 1, Len(results) - 1))
           last == results[Len(results)]
           Kept(c) == calls[c].result.output.analyses
       IN IF \/ \E i \in 1..Len(front) : DedupKey(front[i]) = DedupKey(last)
             \/ \E c \in 1..Len(calls) :
                  /\ calls[c].fn = "analyzeValidationErrors"
                  /\ \E i \in 1..Len(Kept(c)) :
                       DedupKey(Kept(c)[i]) = DedupKey(last)
            THEN front
            ELSE Append(front, last)

\* lines 1076-1090: Array.from(deduped.values()), the first result of each key
RECURSIVE Deduplicate(_)
Deduplicate(results) ==
  IF results = <<>> THEN <<>>
  ELSE LET front == Deduplicate(SubSeq(results, 1, Len(results) - 1))
           last == results[Len(results)]
       IN IF \E i \in 1..Len(front) : DedupKey(front[i]) = DedupKey(last)
            THEN front
            ELSE Append(front, last)

\* lines 1108-1119
Grouped(result, ff) ==
  [triggerField |-> result.triggerField,
   triggerValue |-> result.triggerValue,
   triggerFieldLabel |-> IF PathTruthy(result.triggerField)
                           THEN getFieldLabel(result.triggerField, ff)
                           ELSE Undef,
   errorField |-> result.errorField,
   errorFieldLabel |-> getFieldLabel(result.errorField, ff),
   errorFieldCurrentValue |-> result.currentValue,
   suggestions |-> result.suggestions,
   type |-> IF PathTruthy(result.triggerField) THEN "dependency" ELSE "simple"]

\* first occurrences of a list of paths, in order (a Set's or a Map's keys)
RECURSIVE DistinctPaths(_)
DistinctPaths(paths) ==
  IF paths = <<>> THEN <<>>
  ELSE LET front == DistinctPaths(SubSeq(paths, 1, Len(paths) - 1))
           last == paths[Len(paths)]
       IN IF \E i \in 1..Len(front) : front[i] = last THEN front
          ELSE Append(front, last)

\* MissingOf testing the error field where the code tests the suggestion's
MissingOfErrorField(result, ff) ==
  LET missing == SelectSeq(result.suggestions,
                   LAMBDA sg : ~fieldExistsInSchema(result.errorField, ff))
  IN [k \in 1..Len(missing) |-> missing[k].field]

\* lines 1098-1106: the suggestion fields of one result that the UI schema
\* does not hold
MissingOf(result, ff) ==
  LET missing == SelectSeq(result.suggestions,
                           LAMBDA sg : ~fieldExistsInSchema(sg.field, ff))
  IN [k \in 1..Len(missing) |-> missing[k].field]

\* lines 1094-1128: the entries of missingFieldsByError, in insertion order
MissingFieldsInfo(deduped, ff) ==
  LET owners == SelectSeq(deduped, LAMBDA r : Len(MissingOf(r, ff)) > 0)
      errorFields == DistinctPaths([k \in 1..Len(owners) |->
                                      owners[k].errorField])
      FieldsOf(errorField) ==
        DistinctPaths(Flatten([k \in 1..Len(deduped) |->
          IF deduped[k].errorField = errorField
            THEN MissingOf(deduped[k], ff) ELSE <<>>]))
  IN [k \in 1..Len(errorFields) |->
        [errorField |-> errorFields[k],
         missingFields |-> FieldsOf(errorFields[k])]]

EmptyOutput == [analyses |-> <<>>, missingInFlattenedSchema |-> <<>>]

\* lines 1092-1137: the output built from the deduplicated results
OutputOf(deduped, ff) ==
  [analyses |-> [k \in 1..Len(deduped) |-> Grouped(deduped[k], ff)],
   missingInFlattenedSchema |-> MissingFieldsInfo(deduped, ff)]

\* lines 1074-1137 on the results of the loop
OutcomeOf(all, ff) ==
  IF all.thrown THEN [thrown |-> TRUE, output |-> EmptyOutput]
  ELSE [thrown |-> FALSE, output |-> OutputOf(Deduplicate(all.results), ff)]

\* [thrown, output]: the ValidationAnalysisOutput returned, or the TypeError
\* that leaves the call
analyzeValidationErrors(errors, fd, ff, sch) ==
  IF SchemaMissing(sch) THEN [thrown |-> FALSE, output |-> EmptyOutput]
  ELSE IF hasRefs(sch) THEN [thrown |-> FALSE, output |-> EmptyOutput]
  ELSE OutcomeOf(AnalyzeAll(errors, fd, sch, ff), ff)

(***************************************************************************)
(* filterOutUselessError.ts: filterUnactionableErrors.                     *)
(***************************************************************************)
RECURSIVE FilterExistsWalk(_, _, _)
FilterExistsWalk(pathParts, i, currentSchema) ==
  IF i > Len(pathParts) THEN TRUE
  ELSE IF IsNumeric(pathParts[i]) THEN
    IF /\ StrictEq(Prop(currentSchema, "type"), Str("array"))
       /\ Truthy(Prop(currentSchema, "items"))
      THEN FilterExistsWalk(pathParts, i + 1, Prop(currentSchema, "items"))
      ELSE FALSE
  ELSE LET inner == IF Truthy(Prop(currentSchema, "properties"))
                      THEN Prop(currentSchema, "properties")
                      ELSE currentSchema
       IN IF Truthy(Prop(inner, pathParts[i]))
            THEN FilterExistsWalk(pathParts, i + 1, Prop(inner, pathParts[i]))
            ELSE FALSE

\* the filter module's own copy of fieldExistsInSchema
filterFieldExistsInSchema(fieldPath, ff) == FilterExistsWalk(fieldPath, 1, ff)

\* The order of the "."-separated parts as strings of UTF-16 code units.
\* Every character of a part is greater than ".", so comparing two path
\* strings is comparing their parts one by one.
PartOrder ==
  <<"", "0", "1", "2", "3", "building", "classDescription", "classSegment",
    "coverage", "customer", "date", "detail", "extra", "financials", "fleetSize",
    "include", "insurer", "insurers", "insurers[0]", "insurers[1]",
    "insurers[2]", "insurers[3]", "isHomeBasedBusiness", "kind",
    "nondiagnosticalProcedures", "performSurgeries", "reason", "signer",
    "usage", "vehicle", "waiver">>

PartRank(part) == CHOOSE r \in 1..Len(PartOrder) : PartOrder[r] = part

RECURSIVE PathBefore(_, _)
PathBefore(a, b) ==
  IF a = <<>> THEN b # <<>>
  ELSE IF b = <<>> THEN FALSE
  ELSE IF a[1] = b[1] THEN PathBefore(Tail(a), Tail(b))
  ELSE PartRank(a[1]) < PartRank(b[1])

\* paths.sort() : Array.prototype.sort with the default string order
RECURSIVE SortPaths(_)
SortPaths(paths) ==
  IF paths = <<>> THEN <<>>
  ELSE LET sorted == SortPaths(SubSeq(paths, 1, Len(paths) - 1))
           last == paths[Len(paths)]
           smaller == SelectSeq(sorted, LAMBDA q : ~PathBefore(last, q))
           larger == SelectSeq(sorted, LAMBDA q : PathBefore(last, q))
       IN smaller \o <<last>> \o larger

\* paths.join(separator)
RECURSIVE JoinPaths(_, _)
JoinPaths(paths, separator) ==
  IF paths = <<>> THEN ""
  ELSE IF Len(paths) = 1 THEN PathString(paths[1])
  ELSE JoinPaths(SubSeq(paths, 1, Len(paths) - 1), separator)
       \o separator \o PathString(paths[Len(paths)])

\* IsActionable without the test of the error field itself
IsActionableAnySuggestion(analysis, ff) ==
  /\ analysis.type \in {"dependency", "simple"}
  /\ \E k \in 1..Len(analysis.suggestions) :
       filterFieldExistsInSchema(analysis.suggestions[k].field, ff)

\* lines 63-95: is the analysis actionable
IsActionable(analysis, ff) ==
  /\ analysis.type \in {"dependency", "simple"}
  /\ filterFieldExistsInSchema(analysis.errorField, ff)
  /\ \E k \in 1..Len(analysis.suggestions) :
       filterFieldExistsInSchema(analysis.suggestions[k].field, ff)

\* actionableErrorFields.has(errorField)
ActionableErrorField(errorField, analyses, ff) ==
  \E k \in 1..Len(analyses) :
    analyses[k].errorField = errorField /\ IsActionable(analyses[k], ff)

\* the suggestions as they are, none removed
UnfilteredSuggestions(suggestions, ff) == suggestions

\* lines 117-119: the suggestions whose field the UI schema holds
FilteredSuggestions(suggestions, ff) ==
  SelectSeq(suggestions, LAMBDA sg : filterFieldExistsInSchema(sg.field, ff))

\* the missing fields recorded for the error field, whatever the analysis
\* suggests
RecordedMissingFields(infos, suggestions) == infos[1].missingFields

\* lines 139-143: the missing fields recorded for the error field that are
\* fields of this analysis's suggestions
RelevantMissingFields(infos, suggestions) ==
  SelectSeq(infos[1].missingFields,
            LAMBDA field : \E k \in 1..Len(suggestions) :
                             suggestions[k].field = field)

\* lines 107-156: [analyses, missing, seen] after the first n analyses
RECURSIVE FilterAnalyses(_, _, _)
FilterAnalyses(output, ff, n) ==
  IF n = 0 THEN [analyses |-> <<>>, missing |-> <<>>, seen |-> {}]
  ELSE
    LET acc == FilterAnalyses(output, ff, n - 1)
        analysis == output.analyses[n]
        errorField == analysis.errorField
        suggestions == analysis.suggestions
        filteredSuggestions == FilteredSuggestions(suggestions, ff)
        infos == SelectSeq(output.missingInFlattenedSchema,
                           LAMBDA info : info.errorField = errorField)
        relevantMissingFields ==
          SortPaths(RelevantMissingFields(infos, suggestions))
        key == PathString(errorField) \o ":"
               \o JoinPaths(relevantMissingFields, ",")
        kept == [acc EXCEPT !.analyses =
                   Append(@, [analysis EXCEPT
                                !.suggestions = filteredSuggestions])]
    IN IF ~ActionableErrorField(errorField, output.analyses, ff) THEN acc
       ELSE IF Len(filteredSuggestions) = 0 THEN acc
       ELSE IF Len(infos) = 0 THEN kept
       ELSE IF Len(relevantMissingFields) = 0 THEN kept
       ELSE IF key \in acc.seen THEN kept
       ELSE [kept EXCEPT
               !.missing = Append(@, [errorField |-> infos[1].errorField,
                                      missingFields |-> relevantMissingFields]),
               !.seen = @ \cup {key}]

filterUnactionableErrors(errors, ff, output) ==
  LET filtered == FilterAnalyses(output, ff, Len(output.analyses))
  IN [filteredValidationErrors |->
        SelectSeq(errors, LAMBDA error :
          ActionableErrorField(error.fieldPath, output.analyses, ff)),
      filteredAnalysisOutput |->
        [analyses |-> filtered.analyses,
         missingInFlattenedSchema |-> filtered.missing]]

\* missingInfo.missingFields after a sort() in place
MissingFieldsSorted(missingFields) == SortPaths(missingFields)

\* lines 139-145: what the call leaves of missingInfo.missingFields.
\* Array.prototype.filter allocates relevantMissingFields, and sort() orders
\* that new array in place: the array of the input keeps its order.
MissingFieldsLeft(missingFields) == missingFields

\* lines 107-156: the analysisOutput argument as the call leaves it
AnalysisOutputLeft(output, ff) ==
  LET Reached(info) ==
        \E n \in 1..Len(output.analyses) :
          /\ ActionableErrorField(output.analyses[n].errorField,
                                  output.analyses, ff)
          /\ \E k \in 1..Len(output.analyses[n].suggestions) :
               filterFieldExistsInSchema(
                 output.analyses[n].suggestions[k].field, ff)
          /\ info.errorField = output.analyses[n].errorField
  IN [output EXCEPT !.missingInFlattenedSchema =
        [k \in 1..Len(@) |->
           IF Reached(@[k])
             THEN [@[k] EXCEPT !.missingFields = MissingFieldsLeft(@)]
             ELSE @[k]]]

(***************************************************************************)
(* filterOutUselessError.ts: filterAndDeduplicateErrors.                   *)
(***************************************************************************)
\* the first of the sorted suggestion fields alone
SuggestionKeyFirstField(analysis) ==
  JoinPaths(SubSeq(SortPaths([k \in 1..Len(analysis.suggestions) |->
                                analysis.suggestions[k].field]), 1, 1), "|")

\* lines 195-198: the suggestion fields, sorted and joined by "|"
SuggestionKey(analysis) ==
  JoinPaths(SortPaths([k \in 1..Len(analysis.suggestions) |->
                         analysis.suggestions[k].field]), "|")

\* the analyses without those whose suggestion key comes again later
RECURSIVE DeduplicateAnalysesKeepLast(_)
DeduplicateAnalysesKeepLast(analyses) ==
  IF analyses = <<>> THEN <<>>
  ELSE LET rest == Tail(analyses)
       IN IF \E k \in 1..Len(rest) :
               SuggestionKey(rest[k]) = SuggestionKey(Head(analyses))
            THEN DeduplicateAnalysesKeepLast(rest)
            ELSE <<Head(analyses)>> \o DeduplicateAnalysesKeepLast(rest)

\* lines 193-209: the analyses whose suggestion key was not seen before
RECURSIVE DeduplicateAnalyses(_)
DeduplicateAnalyses(analyses) ==
  IF analyses = <<>> THEN <<>>
  ELSE LET before == SubSeq(analyses, 1, Len(analyses) - 1)
           last == analyses[Len(analyses)]
       IN IF \E k \in 1..Len(before) :
               SuggestionKey(before[k]) = SuggestionKey(last)
            THEN DeduplicateAnalyses(before)
            ELSE Append(DeduplicateAnalyses(before), last)

\* the error fields of the analyses that stay after the collapse
ErrorFieldsOfKept(analyses) ==
  {DeduplicateAnalyses(analyses)[k].errorField :
     k \in 1..Len(DeduplicateAnalyses(analyses))}

\* lines 203 and 207: every filtered analysis adds its error field
ErrorFieldsToKeep(analyses) ==
  {analyses[k].errorField : k \in 1..Len(analyses)}

\* line 216: info.missingFields.sort().join("|")
MissingKey(info) == JoinPaths(SortPaths(info.missingFields), "|")

\* lines 212-221: the missing-field entries whose key was not seen before,
\* each with its missingFields as sort() left them
RECURSIVE DeduplicateMissing(_)
DeduplicateMissing(infos) ==
  IF infos = <<>> THEN <<>>
  ELSE LET before == SubSeq(infos, 1, Len(infos) - 1)
           last == infos[Len(infos)]
       IN IF \E k \in 1..Len(before) : MissingKey(before[k]) = MissingKey(last)
            THEN DeduplicateMissing(before)
            ELSE Append(DeduplicateMissing(before),
                        [last EXCEPT !.missingFields = SortPaths(@)])

\* lines 184-236 on the result of filterUnactionableErrors
DeduplicatedOf(basic) ==
  [filteredValidationErrors |->
     SelectSeq(basic.filteredValidationErrors, LAMBDA error :
       error.fieldPath
         \in ErrorFieldsToKeep(basic.filteredAnalysisOutput.analyses)),
   filteredAnalysisOutput |->
     [analyses |-> DeduplicateAnalyses(basic.filteredAnalysisOutput.analyses),
      missingInFlattenedSchema |->
        DeduplicateMissing(
          basic.filteredAnalysisOutput.missingInFlattenedSchema)]]

filterAndDeduplicateErrors(errors, ff, output) ==
  DeduplicatedOf(filterUnactionableErrors(errors, ff, output))

(***************************************************************************)
(* The inputs: the schemas, form data and mapped errors of the two         *)
(* documented cases (customer.classSegment / classDescription, and         *)
(* building.include / financials.insurers), and the schemas the engine     *)
(* refuses.                                                                *)
(***************************************************************************)
MaxErrors == 2

Strings(values) == Arr([k \in 1..Len(values) |-> Str(values[k])])

Enum(values) == Obj(<<KV("enum", Strings(values))>>)

YesNo(title) ==
  Obj(<<KV("enum", Strings(<<"Yes", "No">>)), KV("title", Str(title))>>)

\* agents.md, "JSON Schema Dependency Structure", with the branches of the
\* documented examples: Associations, Business Services, Medical Offices
CustomerRule ==
  Obj(<<KV("oneOf", Arr(<<
    Obj(<<KV("properties", Obj(<<
            KV("classSegment", Enum(<<"Associations">>)),
            KV("classDescription",
               Enum(<<"Clubs", "Labor Union Offices">>))>>)),
          KV("required", Strings(<<"classDescription">>))>>),
    Obj(<<KV("properties", Obj(<<
            KV("classSegment", Enum(<<"Business Services">>)),
            KV("classDescription", Enum(<<"Printing">>))>>)),
          KV("required", Strings(<<"classDescription">>))>>),
    Obj(<<KV("properties", Obj(<<
            KV("classSegment", Enum(<<"Medical Offices">>)),
            KV("classDescription", Enum(<<"Medical Offices">>)),
            KV("performSurgeries", YesNo("Perform surgeries?")),
            KV("nondiagnosticalProcedures", YesNo("Non-diagnostical?")),
            KV("isHomeBasedBusiness", YesNo("Home-based business?"))>>)),
          KV("required", Strings(<<"performSurgeries",
                                   "nondiagnosticalProcedures",
                                   "isHomeBasedBusiness">>))>>)>>))>>)

CustomerSchema ==
  Obj(<<KV("type", Str("object")),
        KV("properties", Obj(<<
          KV("customer", Obj(<<
            KV("type", Str("object")),
            KV("properties", Obj(<<
              KV("classSegment", Obj(<<KV("type", Str("string"))>>)),
              KV("classDescription", Obj(<<KV("type", Str("string"))>>))>>)),
            KV("dependencies", Obj(<<KV("classSegment", CustomerRule)>>))
          >>))>>))>>)

InsurersSchema ==
  Obj(<<KV("type", Str("array")),
        KV("minItems", Num(1)),
        KV("title", Str("Insurers")),
        KV("items", Obj(<<
          KV("type", Str("object")),
          KV("required", Strings(<<"insurer">>)),
          KV("properties", Obj(<<
            KV("insurer", Obj(<<KV("type", Str("string")),
                                KV("title", Str("Insurer"))>>))>>))>>))>>)

BuildingRule ==
  Obj(<<KV("oneOf", Arr(<<
    Obj(<<KV("properties", Obj(<<
            KV("include", Obj(<<KV("enum", Arr(<<Bool(TRUE)>>))>>)),
            KV("financials", Obj(<<
              KV("type", Str("object")),
              KV("required", Strings(<<"insurers">>)),
              KV("properties", Obj(<<KV("insurers", InsurersSchema)>>))
            >>))>>)),
          KV("required", Strings(<<"financials">>))>>),
    Obj(<<KV("properties", Obj(<<
            KV("include", Obj(<<KV("enum", Arr(<<Bool(FALSE)>>))>>)),
            KV("waiver", Obj(<<
              KV("type", Str("object")),
              KV("required", Strings(<<"signer", "reason", "date">>)),
              KV("properties", Obj(<<
                KV("reason", Obj(<<KV("type", Str("string")),
                                   KV("title", Str("Reason"))>>)),
                KV("signer", Obj(<<KV("type", Str("string")),
                                   KV("title", Str("Signer"))>>)),
                KV("date", Obj(<<KV("type", Str("string")),
                                 KV("title", Str("Date"))>>)),
                KV("kind", Obj(<<KV("enum", Strings(<<"Owner", "Tenant">>)),
                                 KV("title", Str("Kind"))>>))>>))
            >>))>>))>>)
  >>))>>)

BuildingSchema ==
  Obj(<<KV("type", Str("object")),
        KV("properties", Obj(<<
          KV("building", Obj(<<
            KV("type", Str("object")),
            KV("properties", Obj(<<
              KV("include", Obj(<<KV("type", Str("boolean"))>>)),
              KV("financials", Obj(<<
                KV("type", Str("object")),
                KV("properties", Obj(<<
                  KV("insurers", Obj(<<
                    KV("type", Str("array")),
                    KV("items", Obj(<<KV("type", Str("object"))>>))>>))
                >>))>>))>>)),
            KV("dependencies", Obj(<<KV("include", BuildingRule)>>))
          >>))>>))>>)

\* two rules that trigger each other: vehicle.usage decides the coverages
\* allowed, vehicle.coverage the usages allowed
UsageRule ==
  Obj(<<KV("oneOf", Arr(<<
    Obj(<<KV("properties", Obj(<<
            KV("usage", Enum(<<"Personal">>)),
            KV("coverage", Enum(<<"Basic">>))>>)),
          KV("required", Strings(<<"coverage">>))>>),
    Obj(<<KV("properties", Obj(<<
            KV("usage", Enum(<<"Commercial">>)),
            KV("coverage", Enum(<<"Full">>)),
            KV("fleetSize", Obj(<<KV("type", Str("number")),
                                  KV("title", Str("Fleet size"))>>))>>)),
          KV("required", Strings(<<"coverage", "fleetSize">>))>>),
    Obj(<<KV("properties", Obj(<<
            KV("usage", Enum(<<"Rideshare">>)),
            KV("coverage", Enum(<<"Full">>))>>)),
          KV("required", Strings(<<"coverage">>))>>)>>))>>)

CoverageRule ==
  Obj(<<KV("oneOf", Arr(<<
    Obj(<<KV("properties", Obj(<<
            KV("coverage", Enum(<<"Basic">>)),
            KV("usage", Enum(<<"Personal">>))>>))>>),
    Obj(<<KV("properties", Obj(<<
            KV("coverage", Enum(<<"Full">>)),
            KV("usage", Enum(<<"Commercial", "Rideshare">>))>>))>>)>>))>>)

VehicleSchema ==
  Obj(<<KV("type", Str("object")),
        KV("properties", Obj(<<
          KV("vehicle", Obj(<<
            KV("type", Str("object")),
            KV("properties", Obj(<<
              KV("usage", Obj(<<KV("type", Str("string"))>>)),
              KV("coverage", Obj(<<KV("type", Str("string"))>>))>>)),
            KV("dependencies", Obj(<<KV("usage", UsageRule),
                                     KV("coverage", CoverageRule)>>))
          >>))>>))>>)

\* the usage rule declared by the root of the schema, on top-level fields
PolicySchema ==
  Obj(<<KV("type", Str("object")),
        KV("properties", Obj(<<
          KV("usage", Obj(<<KV("type", Str("string"))>>)),
          KV("coverage", Obj(<<KV("type", Str("string"))>>)),
          KV("fleetSize", Obj(<<KV("type", Str("number"))>>))>>)),
        KV("dependencies", Obj(<<KV("usage", UsageRule)>>))>>)

Worlds == {"customer", "building", "vehicle", "policy"}

FullSchema(world) ==
  CASE world = "customer" -> CustomerSchema
    [] world = "building" -> BuildingSchema
    [] world = "policy" -> PolicySchema
    [] OTHER -> VehicleSchema

\* the schema handed to the engine: the full one, or one it must refuse, or
\* one whose root declares no `properties`
SchemaVariants ==
  {"full", "absent", "null", "empty", "refTop", "refDeep", "noProperties"}

SchemaOf(world, variant) ==
  CASE variant = "full" -> FullSchema(world)
    [] variant = "absent" -> Undef
    [] variant = "null" -> Null
    [] variant = "empty" -> Obj(<<>>)
    [] variant = "refTop" ->
         Obj(FullSchema(world).p \o <<KV("$ref", Str("#/definitions/root"))>>)
    [] variant = "refDeep" ->
         Obj(<<KV("type", Str("object")),
               KV("properties", Obj(
                 Prop(FullSchema(world), "properties").p
                 \o <<KV("extra", Obj(<<
                      KV("type", Str("array")),
                      KV("items", Obj(<<
                        KV("$ref", Str("#/definitions/extra"))>>))>>))>>))>>)
    [] OTHER ->
         Obj(<<KV("type", Str("object")),
               KV("dependencies",
                  Prop(Prop(Prop(FullSchema(world), "properties"), world),
                       "dependencies"))>>)

\* form data: the two fields of the world take each of their values
CustomerSegments == <<Undef, Str("Associations"), Str("Business Services"),
                      Str("Medical Offices")>>

CustomerDescriptions == <<Undef, Str("Printing"), Str("Clubs"),
                          Str("Medical Offices")>>

BuildingIncludes == <<Undef, Bool(TRUE), Bool(FALSE)>>

\* building.financials: absent, without insurers, and with insurers of
\* zero, one and two elements
BuildingFinancials ==
  <<Undef,
    Obj(<<>>),
    Obj(<<KV("insurers", Arr(<<>>))>>),
    Obj(<<KV("insurers", Arr(<<Obj(<<>>)>>))>>),
    Obj(<<KV("insurers", Arr(<<Obj(<<KV("insurer", Str("Acme"))>>)>>))>>),
    Obj(<<KV("insurers", Arr(<<Obj(<<KV("insurer", Str(""))>>),
                               Obj(<<KV("insurer", Null)>>)>>))>>)>>

VehicleUsages == <<Undef, Str("Personal"), Str("Commercial")>>

VehicleCoverages == <<Undef, Str("Basic"), Str("Full")>>

\* an object of the given pairs without the undefined ones (JSON holds none)
Defined(pairs) == Obj(SelectSeq(pairs, LAMBDA kv : kv.v.t # "undef"))

FirstValues(world) ==
  CASE world = "customer" -> CustomerSegments
    [] world = "building" -> BuildingIncludes
    [] OTHER -> VehicleUsages

SecondValues(world) ==
  CASE world = "customer" -> CustomerDescriptions
    [] world = "building" -> BuildingFinancials
    [] OTHER -> VehicleCoverages

DataOf(world, a, b) ==
  CASE world = "customer" ->
         Obj(<<KV("customer",
                  Defined(<<KV("classSegment", CustomerSegments[a]),
                            KV("classDescription", CustomerDescriptions[b])
                          >>))>>)
    [] world = "building" ->
         Obj(<<KV("building",
                  Defined(<<KV("include", BuildingIncludes[a]),
                            KV("financials", BuildingFinancials[b])>>))>>)
    [] world = "policy" ->
         Defined(<<KV("usage", VehicleUsages[a]),
                   KV("coverage", VehicleCoverages[b])>>)
    [] OTHER ->
         Obj(<<KV("vehicle",
                  Defined(<<KV("usage", VehicleUsages[a]),
                            KV("coverage", VehicleCoverages[b])>>))>>)

\* UI schemas: which fields the form shows
Field(title) == Obj(<<KV("type", Str("string")), KV("title", Str(title))>>)

UISchema(root, fields) ==
  Obj(<<KV("type", Str("object")),
        KV("properties", Obj(<<
          KV(root, Obj(<<KV("type", Str("object")),
                         KV("properties", Obj(fields))>>))>>))>>)

UISegment == KV("classSegment", Field("Class Segment (select one)"))

UIDescription == KV("classDescription", Field("Class Description (select one)"))

UISurgeries == KV("performSurgeries", Field("Perform surgeries?"))

UIOthers ==
  <<KV("nondiagnosticalProcedures", Field("Non-diagnostical?")),
    KV("isHomeBasedBusiness", Field("Home-based business?"))>>

UIInclude == KV("include", Field("Building Coverage"))

UIInsurers(withItems) ==
  KV("financials", Obj(<<
    KV("type", Str("object")),
    KV("properties", Obj(<<
      KV("insurers", Obj(
        <<KV("type", Str("array")), KV("title", Str("Insurers"))>>
        \o (IF withItems
              THEN <<KV("items", Obj(<<
                     KV("type", Str("object")),
                     KV("properties", Obj(<<
                       KV("insurer", Field("Insurer"))>>))>>))>>
              ELSE <<>>)))>>))>>))

UIWaiver(fields) ==
  KV("waiver", Obj(<<KV("type", Str("object")),
                     KV("properties", Obj(fields))>>))

UIUsage == KV("usage", Field("Usage"))

UICoverage == KV("coverage", Field("Coverage"))

UIFleetSize == KV("fleetSize", Field("Fleet size"))

VehicleUISchemas ==
  <<UISchema("vehicle", <<UIUsage, UICoverage, UIFleetSize>>),
    UISchema("vehicle", <<UIUsage, UICoverage>>),
    UISchema("vehicle", <<UICoverage>>)>>

\* the form of the top-level fields: all of them, and without the fleet size
PolicyUISchemas ==
  <<Obj(<<KV("type", Str("object")),
          KV("properties", Obj(<<UIUsage, UICoverage, UIFleetSize>>))>>),
    Obj(<<KV("type", Str("object")),
          KV("properties", Obj(<<UIUsage, UICoverage>>))>>)>>

UISchemas(world) ==
  IF world = "vehicle" THEN VehicleUISchemas
  ELSE IF world = "policy" THEN PolicyUISchemas
  ELSE IF world = "customer"
    THEN <<UISchema("customer",
                    <<UISegment, UIDescription, UISurgeries>> \o UIOthers),
           UISchema("customer", <<UISegment, UIDescription>>),
           UISchema("customer", <<UISegment, UIDescription, UISurgeries>>),
           UISchema("customer", <<UISegment>>),
           UISchema("customer", <<UIDescription>>)>>
    ELSE <<UISchema("building",
                    <<UIInclude, UIInsurers(TRUE),
                      UIWaiver(<<KV("reason", Field("Reason")),
                                 KV("signer", Field("Signer")),
                                 KV("date", Field("Date")),
                                 KV("kind", Field("Kind"))>>)>>),
           UISchema("building",
                    <<UIInclude, UIInsurers(FALSE),
                      UIWaiver(<<KV("reason", Field("Reason"))>>)>>),
           UISchema("building", <<UIInclude>>),
           UISchema("building",
                    <<UIInsurers(TRUE),
                      UIWaiver(<<KV("reason", Field("Reason"))>>)>>),
           Obj(<<>>)>>

\* mapped errors, as the validator reports them
EnumMessage == "must be equal to one of the allowed values"

MappedError(fieldPath, message, schemaPath, params, stack) ==
  [fieldPath |-> fieldPath, message |-> message,
   originalError |-> [schemaPath |-> schemaPath, params |-> params,
                      stack |-> stack]]

Allowed(values) == Obj(<<KV("allowedValues", values)>>)

CustomerDependency(branch, tail) ==
  <<"#", "properties", "customer", "dependencies", "classSegment", "oneOf",
    branch>> \o tail

BuildingDependency(branch, tail) ==
  <<"#", "properties", "building", "dependencies", "include", "oneOf",
    branch>> \o tail

VehicleDependency(branch, tail) ==
  <<"#", "properties", "vehicle", "dependencies", "usage", "oneOf",
    branch>> \o tail

VehicleErrors ==
  <<MappedError(<<"vehicle", "usage">>, EnumMessage,
      VehicleDependency("0", <<"properties", "usage", "enum">>),
      Allowed(Strings(<<"Personal">>)), <<>>),
    MappedError(<<"vehicle", "coverage">>, EnumMessage,
      VehicleDependency("0", <<"properties", "coverage", "enum">>),
      Allowed(Strings(<<"Basic">>)), <<>>),
    MappedError(<<"vehicle", "fleetSize">>,
      "must have required property 'fleetSize'",
      VehicleDependency("1", <<"required">>),
      Obj(<<KV("missingProperty", Str("fleetSize"))>>), <<>>)>>

PolicyDependency(branch, tail) ==
  <<"#", "dependencies", "usage", "oneOf", branch>> \o tail

PolicyErrors ==
  <<MappedError(<<"coverage">>, EnumMessage,
      PolicyDependency("0", <<"properties", "coverage", "enum">>),
      Allowed(Strings(<<"Basic">>)), <<>>),
    MappedError(<<"fleetSize">>,
      "must have required property 'fleetSize'",
      PolicyDependency("1", <<"required">>),
      Obj(<<KV("missingProperty", Str("fleetSize"))>>), <<>>)>>

ErrorPool(world) ==
  IF world = "vehicle" THEN VehicleErrors
  ELSE IF world = "policy" THEN PolicyErrors
  ELSE IF world = "customer"
    THEN <<MappedError(<<"customer", "classSegment">>, EnumMessage,
             CustomerDependency("0", <<"properties", "classSegment", "enum">>),
             Allowed(Strings(<<"Associations">>)), <<>>),
           MappedError(<<"customer", "classDescription">>, EnumMessage,
             CustomerDependency("0",
               <<"properties", "classDescription", "enum">>),
             Allowed(Strings(<<"Clubs", "Labor Union Offices">>)), <<>>),
           MappedError(<<"customer", "classDescription">>, EnumMessage,
             <<"#", "properties", "customer", "properties",
               "classDescription", "enum">>,
             Allowed(Strings(<<"Clubs">>)), <<>>),
           MappedError(<<"customer", "performSurgeries">>,
             "must have required property 'performSurgeries'",
             CustomerDependency("2", <<"required">>),
             Obj(<<KV("missingProperty", Str("performSurgeries"))>>), <<>>)>>
    ELSE <<MappedError(<<"building", "include">>, EnumMessage,
             BuildingDependency("1", <<"properties", "include", "enum">>),
             Allowed(Arr(<<Bool(FALSE)>>)), <<>>),
           MappedError(<<"building", "financials", "insurers">>,
             FewerThanMessage,
             BuildingDependency("0", <<"properties", "financials",
               "properties", "insurers", "minItems">>),
             Obj(<<KV("limit", Num(1))>>),
             <<"", "Insurers", " must NOT have fewer than 1 items">>),
           MappedError(<<"building", "financials", "insurers", "0", "insurer">>,
             "must have required property 'insurer'",
             BuildingDependency("0", <<"properties", "financials",
               "properties", "insurers", "items", "required">>),
             Obj(<<KV("missingProperty", Str("insurer"))>>), <<>>)>>

\* the error lists of at most MaxErrors errors of the world
ErrorChoices(world) ==
  UNION {[1..n -> 1..Len(ErrorPool(world))] : n \in 0..MaxErrors}

ErrorList(world, choice) ==
  [k \in 1..Len(choice) |-> ErrorPool(world)[choice[k]]]

(***************************************************************************)
(* The pipeline of test-filter-script.ts: analyzeValidationErrors, then    *)
(* filterUnactionableErrors and filterAndDeduplicateErrors on its output.  *)
(* The functions are exported, so the pipeline may run again on the same   *)
(* inputs.  calls logs every call as [fn, args, result].                   *)
(***************************************************************************)
NoFilterOutput ==
  [filteredValidationErrors |-> <<>>, filteredAnalysisOutput |-> EmptyOutput]

Call(fn, args, result) == [fn |-> fn, args |-> args, result |-> result]

Init ==
  \E world \in Worlds, variant \in SchemaVariants :
    \E a \in 1..Len(FirstValues(world)), b \in 1..Len(SecondValues(world)),
       u \in 1..Len(UISchemas(world)), choice \in ErrorChoices(world) :
      /\ variant # "full" => a = 2 /\ u = 1 /\ world # "policy"
      /\ validationErrors = ErrorList(world, choice)
      /\ formData = DataOf(world, a, b)
      /\ ffSchema = UISchemas(world)[u]
      /\ schema = SchemaOf(world, variant)
      /\ pc = "start"
      /\ analysisOutput = [thrown |-> FALSE, output |-> EmptyOutput]
      /\ filterOutput = NoFilterOutput
      /\ dedupOutput = NoFilterOutput
      /\ calls = <<>>

AnalyzeValidationErrors ==
  /\ pc = "start"
  /\ analysisOutput' =
       analyzeValidationErrors(validationErrors, formData, ffSchema, schema)
  /\ pc' = IF analysisOutput'.thrown THEN "thrown" ELSE "analyzed"
  /\ calls' = Append(calls,
                Call("analyzeValidationErrors",
                     <<validationErrors, formData, ffSchema, schema>>,
                     analysisOutput'))
  /\ UNCHANGED <<validationErrors, formData, ffSchema, schema, filterOutput,
                 dedupOutput>>

FilterUnactionableErrors ==
  /\ pc = "analyzed"
  /\ filterOutput' =
       filterUnactionableErrors(validationErrors, ffSchema,
                                analysisOutput.output)
  /\ analysisOutput' =
       [analysisOutput EXCEPT !.output = AnalysisOutputLeft(@, ffSchema)]
  /\ pc' = "filtered"
  /\ calls' = Append(calls,
                Call("filterUnactionableErrors",
                     <<validationErrors, ffSchema, analysisOutput.output>>,
                     filterOutput'))
  /\ UNCHANGED <<validationErrors, formData, ffSchema, schema, dedupOutput>>

\* the call runs filterUnactionableErrors first (line 186), which leaves
\* analysisOutput as AnalysisOutputLeft tells; the sort() of line 216 acts on
\* the arrays that call allocated
FilterAndDeduplicateErrors ==
  /\ pc = "filtered"
  /\ dedupOutput' =
       filterAndDeduplicateErrors(validationErrors, ffSchema,
                                  analysisOutput.output)
  /\ analysisOutput' =
       [analysisOutput EXCEPT !.output = AnalysisOutputLeft(@, ffSchema)]
  /\ pc' = "deduplicated"
  /\ calls' = Append(calls,
                Call("filterAndDeduplicateErrors",
                     <<validationErrors, ffSchema, analysisOutput.output>>,
                     dedupOutput'))
  /\ UNCHANGED <<validationErrors, formData, ffSchema, schema, filterOutput>>

\* the pipeline has run twice
RanAgain ==
  \E j, k \in 1..Len(calls) : j < k /\ calls[j].fn = calls[k].fn

\* the pipeline is run again on lists of at most this many errors
MaxRepeatedErrors == 1

\* the pipeline runs once more; the earlier results are dropped
CallAgain ==
  /\ pc \in {"deduplicated", "thrown"}
  /\ ~RanAgain
  /\ Len(validationErrors) <= MaxRepeatedErrors
  /\ pc' = "start"
  /\ analysisOutput' = [thrown |-> FALSE, output |-> EmptyOutput]
  /\ filterOutput' = NoFilterOutput
  /\ dedupOutput' = NoFilterOutput
  /\ UNCHANGED <<validationErrors, formData, ffSchema, schema, calls>>

Next ==
  \/ AnalyzeValidationErrors
  \/ FilterUnactionableErrors
  \/ FilterAndDeduplicateErrors
  \/ CallAgain

Spec == Init /\ [][Next]_vars

(***************************************************************************)
(* Properties of analyzeValidationErrors.                                  *)
(***************************************************************************)
\* analyzeValidationErrors has just returned: analysisOutput is its output
Returned == pc = "analyzed"

\* analyzeValidationErrors has returned for the first time: the inputs of
\* the state are those of every later call
FirstReturned == Returned /\ Len(calls) = 1

Accepted == ~SchemaMissing(schema) /\ ~hasRefs(schema)

\* analyzeValidationErrors has returned for the first time on a single
\* error.  analyzeDependencyError and the resolvers it calls take one error
\* with the form data and the two schemas: what holds of them for one error
\* is checked where the error comes alone, and every error of a world comes
\* alone with every form data and every pair of schemas.
AnalysedAlone == FirstReturned /\ Len(validationErrors) = 1

Analyses == analysisOutput.output.analyses

Missing == analysisOutput.output.missingInFlattenedSchema

SuggestionFields(analysis) ==
  [k \in 1..Len(analysis.suggestions) |-> analysis.suggestions[k].field]

\* C1: no analysis returned by analyzeValidationErrors, of type dependency
\* or simple, holds a suggestion whose field is the analysis's errorField.
NoSelfReference ==
  Returned =>
    \A i \in 1..Len(Analyses) :
      \A k \in 1..Len(Analyses[i].suggestions) :
        Analyses[i].suggestions[k].field # Analyses[i].errorField

TypeOf(result) ==
  IF PathTruthy(result.triggerField) THEN "dependency" ELSE "simple"

\* the results of each validation error, in input order
ResultsPerError ==
  [k \in 1..Len(validationErrors) |->
     analyzeDependencyError(validationErrors[k], formData, schema,
                            ffSchema).results]

SamePair(result, analysis) ==
  result.errorField = analysis.errorField /\ TypeOf(result) = analysis.type

Yields(results, analysis) ==
  \E n \in 1..Len(results) : SamePair(results[n], analysis)

FirstOfPair(results, analysis) ==
  Grouped(SelectSeq(results, LAMBDA r : SamePair(r, analysis))[1], ffSchema)

\* C2: the analyses hold at most one entry per (errorField, type) pair, and
\* the entry of a pair is the one produced by the earliest validation error,
\* in input order, that yields a result of that type for that error field.
FirstResultPerFieldAndType ==
  FirstReturned /\ Accepted =>
    LET perError == ResultsPerError
    IN /\ \A i, j \in 1..Len(Analyses) :
            /\ Analyses[i].errorField = Analyses[j].errorField
            /\ Analyses[i].type = Analyses[j].type
            => i = j
       /\ \A i \in 1..Len(Analyses) :
            \E k \in 1..Len(perError) :
              /\ Yields(perError[k], Analyses[i])
              /\ \A m \in 1..(k - 1) : ~Yields(perError[m], Analyses[i])
              /\ Analyses[i] = FirstOfPair(perError[k], Analyses[i])
       /\ \A k \in 1..Len(perError) :
            \A n \in 1..Len(perError[k]) :
              \E i \in 1..Len(Analyses) : SamePair(perError[k][n], Analyses[i])

\* two errors yield different results for one pair, and the call returned
LaterResultDiscarded ==
  /\ Returned /\ Accepted
  /\ LET perError == ResultsPerError
     IN \E i \in 1..Len(Analyses) :
          \E k, m \in 1..Len(perError) :
            /\ k < m
            /\ Yields(perError[k], Analyses[i])
            /\ Yields(perError[m], Analyses[i])
            /\ FirstOfPair(perError[k], Analyses[i])
               # FirstOfPair(perError[m], Analyses[i])

RefusedSchemas ==
  {SchemaOf(world, variant) :
     world \in Worlds,
     variant \in {"absent", "null", "empty", "refTop", "refDeep"}}

NeverRaises == pc # "thrown"

Listed(errorField, field) ==
  \E m \in 1..Len(Missing) :
    /\ Missing[m].errorField = errorField
    /\ \E n \in 1..Len(Missing[m].missingFields) :
         Missing[m].missingFields[n] = field

\* C5: a suggestion field of an analysis with error field e is listed in the
\* missingInFlattenedSchema entry for e exactly when fieldExistsInSchema of it
\* on the UI schema is false; no UI-visible field is recorded as missing, and
\* an error field has one entry.
MissingExactlyTheInvisible ==
  Returned =>
    /\ \A i \in 1..Len(Analyses) :
         \A k \in 1..Len(Analyses[i].suggestions) :
           Listed(Analyses[i].errorField, Analyses[i].suggestions[k].field)
           <=> ~fieldExistsInSchema(Analyses[i].suggestions[k].field, ffSchema)
    /\ \A m \in 1..Len(Missing) :
         /\ \A n \in 1..Len(Missing[m].missingFields) :
              ~fieldExistsInSchema(Missing[m].missingFields[n], ffSchema)
         /\ \A n \in 1..Len(Missing) :
              Missing[m].errorField = Missing[n].errorField => m = n

\* an analysis whose error field the UI shows, with a suggestion the UI shows
\* and one it does not
VisibleAndMissingSuggestions ==
  /\ Returned
  /\ \E i \in 1..Len(Analyses) :
       /\ fieldExistsInSchema(Analyses[i].errorField, ffSchema)
       /\ \E k, n \in 1..Len(Analyses[i].suggestions) :
            /\ fieldExistsInSchema(Analyses[i].suggestions[k].field, ffSchema)
            /\ Listed(Analyses[i].errorField, Analyses[i].suggestions[n].field)

ClassSegment == <<"customer", "classSegment">>

ClassDescription == <<"customer", "classDescription">>

BranchFields ==
  <<<<"customer", "performSurgeries">>,
    <<"customer", "nondiagnosticalProcedures">>,
    <<"customer", "isHomeBasedBusiness">>>>

\* case 2: the segment is Medical Offices, the three fields its branch
\* requires are unset and not in the UI schema, and the error is on the
\* segment
CaseTwo ==
  /\ Returned
  /\ schema = CustomerSchema
  /\ getNestedValue(formData, ClassSegment) = Str("Medical Offices")
  /\ getNestedValue(formData, ClassDescription) = Str("Medical Offices")
  /\ \A n \in 1..Len(BranchFields) :
       /\ getNestedValue(formData, BranchFields[n]) = Undef
       /\ ~fieldExistsInSchema(BranchFields[n], ffSchema)
  /\ validationErrors = <<ErrorPool("customer")[1]>>

\* C6: when the active branch requires enum-constrained fields p, q, r that
\* are unset and absent from the UI schema, the error still gets a
\* dependency analysis whose suggestions are p, q, r, missingInFlattenedSchema
\* holds {errorField, missingFields: [p, q, r]}, and there is no simple
\* analysis suggesting the error field itself.
MissingBranchFieldsStillSuggested ==
  CaseTwo =>
    /\ \E i \in 1..Len(Analyses) :
         /\ Analyses[i].type = "dependency"
         /\ Analyses[i].errorField = ClassSegment
         /\ SuggestionFields(Analyses[i]) = BranchFields
    /\ \E m \in 1..Len(Missing) :
         Missing[m] = [errorField |-> ClassSegment,
                       missingFields |-> BranchFields]
    /\ \A i \in 1..Len(Analyses) :
         Analyses[i].type = "simple" =>
           \A k \in 1..Len(Analyses[i].suggestions) :
             Analyses[i].suggestions[k].field # Analyses[i].errorField

Include == <<"building", "include">>

Insurers == <<"building", "financials", "insurers">>

\* the elements of building.financials.insurers without an `insurer`
ElementsLackingInsurer ==
  LET insurers == getNestedValue(formData, Insurers)
  IN {n \in 1..Len(Elems(insurers)) :
        \/ IsNullish(Prop(insurers.e[n], "insurer"))
        \/ Prop(insurers.e[n], "insurer") = Str("")}

\* case 1: building.include is true, elements of the insurers lack their
\* required `insurer`, the UI schema holds that leaf, and the error is on
\* building.include
CaseOne ==
  /\ Returned
  /\ schema = BuildingSchema
  /\ getNestedValue(formData, Include) = Bool(TRUE)
  /\ ElementsLackingInsurer # {}
  /\ fieldExistsInSchema(Insurers \o <<"0", "insurer">>, ffSchema)
  /\ validationErrors = <<ErrorPool("building")[1]>>

\* C7: for element i of an array of the active branch that lacks a required
\* leaf f the UI schema holds, the forward resolver emits a suggestion whose
\* field is <array path>.<i>.<f> in dot notation, with isRequired true.
ArrayItemLeafSuggestedInDotNotation ==
  CaseOne =>
    \A n \in ElementsLackingInsurer :
      \E i \in 1..Len(Analyses) :
        \E k \in 1..Len(Analyses[i].suggestions) :
          /\ Analyses[i].suggestions[k].field
             = Insurers \o <<ToString(n - 1), "insurer">>
          /\ Analyses[i].suggestions[k].isRequired

\* Scenario B: building.include is true, building.financials.insurers is [],
\* and the error is on building.include under /dependencies/include/
ScenarioB ==
  /\ Returned
  /\ schema = BuildingSchema
  /\ getNestedValue(formData, Include) = Bool(TRUE)
  /\ getNestedValue(formData, Insurers) = Arr(<<>>)
  /\ validationErrors = <<ErrorPool("building")[1]>>

\* C8: in Scenario B the output holds exactly one analysis: type dependency,
\* triggerField building.include, with exactly one suggestion, on
\* building.financials.insurers, allowedValues ["at least 1 items"],
\* isRequired true.
ScenarioBOneDependencyAnalysis ==
  ScenarioB =>
    /\ Len(Analyses) = 1
    /\ Analyses[1].type = "dependency"
    /\ Analyses[1].triggerField = Include
    /\ Len(Analyses[1].suggestions) = 1
    /\ Analyses[1].suggestions[1].field = Insurers
    /\ Analyses[1].suggestions[1].allowedValues = <<Str("at least 1 items")>>
    /\ Analyses[1].suggestions[1].isRequired

\* Scenario B on a UI schema without the insurers
ScenarioBInsurersHidden ==
  ScenarioB /\ ~fieldExistsInSchema(Insurers, ffSchema)

\* Scenario D: the segment is Associations, the description Printing, both
\* in the UI schema, and the error is the enum error on the description under
\* /dependencies/classSegment/
ScenarioD ==
  /\ Returned
  /\ schema = CustomerSchema
  /\ getNestedValue(formData, ClassSegment) = Str("Associations")
  /\ getNestedValue(formData, ClassDescription) = Str("Printing")
  /\ fieldExistsInSchema(ClassSegment, ffSchema)
  /\ fieldExistsInSchema(ClassDescription, ffSchema)
  /\ validationErrors = <<ErrorPool("customer")[2]>>

\* C9: in Scenario D the output holds exactly one analysis for the
\* description: type simple, no triggerField, with exactly one suggestion, on
\* the segment, allowedValues ["Business Services"].
ScenarioDOneReverseAnalysis ==
  ScenarioD =>
    LET forY == SelectSeq(Analyses,
                          LAMBDA g : g.errorField = ClassDescription)
    IN /\ Len(forY) = 1
       /\ forY[1].type = "simple"
       /\ forY[1].triggerField = NullPath
       /\ forY[1].triggerValue = Undef
       /\ Len(forY[1].suggestions) = 1
       /\ forY[1].suggestions[1].field = ClassSegment
       /\ forY[1].suggestions[1].allowedValues = <<Str("Business Services")>>

(***************************************************************************)
(* Properties of filterUnactionableErrors.                                 *)
(***************************************************************************)
\* some analysis is on the error's field, the UI schema holds that field and
\* one of the analysis's suggestions
HasActionableAnalysis(error) ==
  \E i \in 1..Len(Analyses) :
    /\ Analyses[i].errorField = error.fieldPath
    /\ fieldExistsInSchema(Analyses[i].errorField, ffSchema)
    /\ \E k \in 1..Len(Analyses[i].suggestions) :
         fieldExistsInSchema(Analyses[i].suggestions[k].field, ffSchema)

\* C10: filterUnactionableErrors keeps a validation error exactly when some
\* analysis has its fieldPath as errorField, that field is in the UI schema
\* and so is one of the analysis's suggestions; the kept errors are in input
\* order and every other error is removed.
FilterKeepsActionableErrors ==
  pc = "filtered" =>
    filterOutput.filteredValidationErrors
    = SelectSeq(validationErrors, HasActionableAnalysis)

\* the filter kept an error and removed another, one whose analysis has a
\* suggestion the UI schema holds while its own field is not in it
KeptAndRemovedErrors ==
  /\ pc = "filtered"
  /\ Len(filterOutput.filteredValidationErrors) > 0
  /\ Len(filterOutput.filteredValidationErrors) < Len(validationErrors)
  /\ \E i \in 1..Len(Analyses) :
       /\ ~fieldExistsInSchema(Analyses[i].errorField, ffSchema)
       /\ \E k \in 1..Len(Analyses[i].suggestions) :
            fieldExistsInSchema(Analyses[i].suggestions[k].field, ffSchema)

FilteredAnalyses == filterOutput.filteredAnalysisOutput.analyses

DeduplicatedAnalyses == dedupOutput.filteredAnalysisOutput.analyses

\* the analysis has a suggestion, and the UI schema holds its error field
\* and the field of every suggestion
WhollyVisible(analysis) ==
  /\ Len(analysis.suggestions) > 0
  /\ fieldExistsInSchema(analysis.errorField, ffSchema)
  /\ \A k \in 1..Len(analysis.suggestions) :
       fieldExistsInSchema(analysis.suggestions[k].field, ffSchema)

NoVisibleSuggestion(analysis) ==
  \A k \in 1..Len(analysis.suggestions) :
    ~fieldExistsInSchema(analysis.suggestions[k].field, ffSchema)

\* no analysis of the list is the given one with fewer suggestions
AbsentFrom(analyses, analysis) ==
  \A k \in 1..Len(analyses) :
    ~ /\ analyses[k].errorField = analysis.errorField
      /\ analyses[k].type = analysis.type

\* C11: every analysis returned by filterUnactionableErrors and by
\* filterAndDeduplicateErrors has a suggestion, an error field the UI schema
\* holds and only suggestion fields the UI schema holds; an analysis with no
\* UI-visible suggestion is absent from the output.
FilteredAnalysesWhollyVisible ==
  /\ pc = "filtered" =>
       /\ \A k \in 1..Len(FilteredAnalyses) :
            WhollyVisible(FilteredAnalyses[k])
       /\ \A i \in 1..Len(Analyses) :
            NoVisibleSuggestion(Analyses[i])
            => AbsentFrom(FilteredAnalyses, Analyses[i])
  /\ pc = "deduplicated" =>
       /\ \A k \in 1..Len(DeduplicatedAnalyses) :
            WhollyVisible(DeduplicatedAnalyses[k])
       /\ \A i \in 1..Len(Analyses) :
            NoVisibleSuggestion(Analyses[i])
            => AbsentFrom(DeduplicatedAnalyses, Analyses[i])

\* both filters returned; one analysis lost some of its suggestions and
\* stayed, another on the same error field had no visible suggestion left
PrunedAndDroppedAnalyses ==
  /\ pc = "deduplicated"
  /\ Len(DeduplicatedAnalyses) > 0
  /\ \E i, j \in 1..Len(Analyses) :
       /\ NoVisibleSuggestion(Analyses[i])
       /\ Analyses[i].errorField = Analyses[j].errorField
       /\ ~NoVisibleSuggestion(Analyses[j])
       /\ fieldExistsInSchema(Analyses[j].errorField, ffSchema)
       /\ \E k \in 1..Len(Analyses[j].suggestions) :
            ~fieldExistsInSchema(Analyses[j].suggestions[k].field, ffSchema)

(***************************************************************************)
(* Properties of filterAndDeduplicateErrors.                               *)
(***************************************************************************)
\* the number of suggestions of the analysis on the field
FieldCount(analysis, field) ==
  Cardinality({k \in 1..Len(analysis.suggestions) :
                 analysis.suggestions[k].field = field})

\* the sorted lists of suggestion fields of the two analyses are equal:
\* every field comes as often in the one as in the other
SameSignature(a, b) ==
  /\ Len(a.suggestions) = Len(b.suggestions)
  /\ \A k \in 1..Len(a.suggestions) :
       FieldCount(a, a.suggestions[k].field)
       = FieldCount(b, a.suggestions[k].field)

\* the filtered analyses that no earlier one shares its signature with
FirstOfTheirSignature ==
  SelectSeq(FilteredAnalyses, LAMBDA a :
    \E i \in 1..Len(FilteredAnalyses) :
      /\ FilteredAnalyses[i] = a
      /\ \A j \in 1..(i - 1) : ~SameSignature(FilteredAnalyses[j], a))

\* C12: no two analyses returned by filterAndDeduplicateErrors have the same
\* sorted list of suggestion fields, and of the filtered analyses sharing a
\* signature the one kept is the first in input order.
OneAnalysisPerSignature ==
  pc = "deduplicated" =>
    /\ \A i, j \in 1..Len(DeduplicatedAnalyses) :
         SameSignature(DeduplicatedAnalyses[i], DeduplicatedAnalyses[j])
         => i = j
    /\ DeduplicatedAnalyses = FirstOfTheirSignature

\* two different filtered analyses share a signature
SignatureShared ==
  /\ pc = "deduplicated"
  /\ \E i, j \in 1..Len(FilteredAnalyses) :
       /\ i < j
       /\ FilteredAnalyses[i] # FilteredAnalyses[j]
       /\ SameSignature(FilteredAnalyses[i], FilteredAnalyses[j])

\* C13: collapsing analyses by signature removes no validation error: the
\* filteredValidationErrors of filterAndDeduplicateErrors are those of
\* filterUnactionableErrors on the same input, in the same order.
CollapseKeepsValidationErrors ==
  pc = "deduplicated" =>
    dedupOutput.filteredValidationErrors
    = filterOutput.filteredValidationErrors

\* an analysis was collapsed into an earlier one on another error field,
\* and the error on its field was kept
CollapsedAnalysisErrorKept ==
  /\ pc = "deduplicated"
  /\ \E i, j \in 1..Len(FilteredAnalyses) :
       /\ i < j
       /\ SameSignature(FilteredAnalyses[i], FilteredAnalyses[j])
       /\ AbsentFrom(DeduplicatedAnalyses, FilteredAnalyses[j])
       /\ \A k \in 1..Len(DeduplicatedAnalyses) :
            DeduplicatedAnalyses[k].errorField
            # FilteredAnalyses[j].errorField
       /\ \E n \in 1..Len(dedupOutput.filteredValidationErrors) :
            dedupOutput.filteredValidationErrors[n].fieldPath
            = FilteredAnalyses[j].errorField

(***************************************************************************)
(* Properties of the suggestions of analyzeValidationErrors.               *)
(***************************************************************************)
\* C14: in every reverse-dependency suggestion (a suggestion of a
\* simple-type analysis on a trigger field, not on the error field), the
\* allowedValues never hold the trigger field's current value in the data,
\* for enum errors and for minItems/maxItems errors alike.
ReverseSuggestionOmitsCurrentValue ==
  Returned =>
    \A i \in 1..Len(Analyses) :
      Analyses[i].type = "simple" =>
        \A k \in 1..Len(Analyses[i].suggestions) :
          Analyses[i].suggestions[k].field # Analyses[i].errorField =>
            \A n \in 1..Len(Analyses[i].suggestions[k].allowedValues) :
              Analyses[i].suggestions[k].allowedValues[n]
              # getNestedValue(formData, Analyses[i].suggestions[k].field)

\* a reverse suggestion on a trigger field that has a value in the data,
\* given for a minItems error
ReverseSuggestionOnSetTrigger ==
  /\ Returned
  /\ Len(validationErrors) = 1
  /\ LocatorIncludes(validationErrors[1].originalError.schemaPath, "minItems")
  /\ \E i \in 1..Len(Analyses) :
       /\ Analyses[i].type = "simple"
       /\ \E k \in 1..Len(Analyses[i].suggestions) :
            /\ Analyses[i].suggestions[k].field # Analyses[i].errorField
            /\ getNestedValue(formData, Analyses[i].suggestions[k].field)
               # Undef
            /\ Len(Analyses[i].suggestions[k].allowedValues) > 0

NoNode == [t |-> "none"]

IndexSegments == {ToString(i) : i \in 0..MaxIndex}

\* the schema node the dot-segment walk reaches from root, NoNode when the
\* walk fails: a numeric segment needs an array-typed node with an items
\* node and leads to the items; any other segment is looked up in the
\* node's `properties` when it has them, else in the node
RECURSIVE NodeAt(_, _)
NodeAt(path, root) ==
  IF path = <<>> THEN root
  ELSE LET parent == NodeAt(SubSeq(path, 1, Len(path) - 1), root)
           segment == path[Len(path)]
           inner == IF HasKey(parent, "properties")
                      THEN Prop(parent, "properties") ELSE parent
       IN IF parent = NoNode THEN NoNode
          ELSE IF segment \in IndexSegments THEN
            (IF Prop(parent, "type") = Str("array") /\ HasKey(parent, "items")
               THEN Prop(parent, "items") ELSE NoNode)
          ELSE IF HasKey(inner, segment) THEN Prop(inner, segment)
          ELSE NoNode

\* paths of the three forms: to objects, leaves, array items and their
\* leaves, to fields no schema declares, and to schema keywords
KnownPaths ==
  {<<"customer">>, <<"customer", "classSegment">>,
   <<"customer", "performSurgeries">>, <<"customer", "classSegment", "0">>,
   <<"building", "include">>, <<"building", "financials">>,
   Insurers, Insurers \o <<"0">>, Insurers \o <<"0", "insurer">>,
   Insurers \o <<"1", "insurer">>, Insurers \o <<"insurer">>,
   Insurers \o <<"0", "0">>, Insurers \o <<"items">>,
   <<"building", "waiver", "signer">>, <<"building", "type">>,
   <<"vehicle", "usage">>, <<"vehicle", "fleetSize">>, <<"type">>,
   <<"properties">>, <<"0">>}

\* the paths probed in a state: the paths above where the analysis ran on no
\* error (every pair of schemas comes with the empty error list), the error
\* fields and the suggested fields elsewhere
ProbedPaths ==
  IF validationErrors = <<>> THEN KnownPaths
  ELSE {validationErrors[k].fieldPath : k \in 1..Len(validationErrors)}
       \cup UNION {{Analyses[i].suggestions[k].field :
                      k \in 1..Len(Analyses[i].suggestions)} :
                   i \in 1..Len(Analyses)}

\* the node at a.b is array-typed with an items node declaring property c
ArrayWithItemProperty(path, property) ==
  /\ NodeAt(path, ffSchema) # NoNode
  /\ Prop(NodeAt(path, ffSchema), "type") = Str("array")
  /\ HasKey(Prop(Prop(NodeAt(path, ffSchema), "items"), "properties"),
            property)

\* C15: fieldExistsInSchema(path, schema) is true exactly when the
\* dot-segment walk succeeds (numeric segment: array-typed node with items,
\* descend into items; other segment: descend into `properties` when
\* present, then the named entry must exist), in both copies of the
\* function; it is true for a.b.0.c when a.b is array-typed with items
\* declaring property c.
ExistsExactlyWhenWalkSucceeds ==
  FirstReturned =>
    /\ \A path \in ProbedPaths :
         /\ fieldExistsInSchema(path, ffSchema)
            <=> NodeAt(path, ffSchema) # NoNode
         /\ filterFieldExistsInSchema(path, ffSchema)
            <=> NodeAt(path, ffSchema) # NoNode
    /\ ArrayWithItemProperty(Insurers, "insurer")
       => fieldExistsInSchema(Insurers \o <<"0", "insurer">>, ffSchema)

\* Scenario A: the UI schema declares the insurers as an array whose items
\* have the property insurer, and the analysis ran on an error on the leaf
\* of the first element
ScenarioA ==
  /\ Returned
  /\ ArrayWithItemProperty(Insurers, "insurer")
  /\ validationErrors = <<ErrorPool("building")[3]>>
  /\ fieldExistsInSchema(validationErrors[1].fieldPath, ffSchema)
  /\ ~fieldExistsInSchema(Insurers \o <<"insurer">>, ffSchema)

ResultOn(call) ==
  CASE call.fn = "analyzeValidationErrors" ->
         analyzeValidationErrors(call.args[1], call.args[2], call.args[3],
                                 call.args[4])
    [] call.fn = "filterUnactionableErrors" ->
         filterUnactionableErrors(call.args[1], call.args[2], call.args[3])
    [] OTHER ->
         filterAndDeduplicateErrors(call.args[1], call.args[2], call.args[3])

HasDependencyField(error) ==
  findDependencyField(error.originalError.schemaPath) # ""

\* [found, schema, data, path]: the parent schema, data and path the
\* dependency block hands to both resolvers for the error
ResolverArguments(error) ==
  LET parentPath == getParentPath(error.fieldPath)
      dependencyField == findDependencyField(error.originalError.schemaPath)
  IN DependencyTarget(getSchemaForPath(schema, parentPath),
                      IF PathTruthy(parentPath)
                        THEN getNestedValue(formData, parentPath)
                        ELSE formData,
                      parentPath, dependencyField,
                      IF PathTruthy(parentPath)
                        THEN Append(parentPath, dependencyField)
                        ELSE <<dependencyField>>)

\* the top-level call of findAllRequiredFields for the error
ForwardCall(error) ==
  LET target == ResolverArguments(error)
  IN FindAllRequired(ffSchema, target.schema, target.data, target.path, {})

\* the visit keys of the log, in the order they were processed
KeysOf(log) == SelectSeq(log, LAMBDA entry : entry \notin {"(", ")"})

\* the number of nested calls open after the first n entries of the log
RECURSIVE OpenCalls(_, _)
OpenCalls(log, n) ==
  IF n = 0 THEN 0
  ELSE OpenCalls(log, n - 1)
       + (IF log[n] = "(" THEN 1 ELSE IF log[n] = ")" THEN -1 ELSE 0)

\* the depth the recursion reached below the top-level call
RecursionDepth(log) ==
  CHOOSE d \in 0..Len(log) :
    /\ \E n \in 0..Len(log) : OpenCalls(log, n) = d
    /\ \A n \in 0..Len(log) : OpenCalls(log, n) <= d

\* what the matching branch of the rule with the given visit key suggests
BranchContribution(target, key) ==
  LET deps == Entries(Prop(target.schema, "dependencies"))
      d == CHOOSE d \in 1..Len(deps) :
             VisitKey(target.path, deps[d].k, Prop(target.data, deps[d].k))
             = key
      matchingSchema == MatchingSchema(deps[d].v, deps[d].k,
                                       Prop(target.data, deps[d].k))
      props == Entries(Prop(matchingSchema, "properties"))
  IN Flatten([k \in 1..Len(props) |->
       BranchPropertySuggestions(ffSchema, deps[d].k, props[k].k, props[k].v,
         target.data, target.path,
         IF Truthy(Prop(matchingSchema, "required"))
           THEN Prop(matchingSchema, "required") ELSE Arr(<<>>))])

\* C18: findAllRequiredFields terminates, also on rules whose trigger
\* fields trigger each other: in one top-level call every visit key is
\* processed at most once, the recursion is no deeper than the parent has
\* dependency rules, and the branch of a rule contributes its suggestions
\* at most once.
EachVisitKeyOnce ==
  AnalysedAlone /\ Accepted =>
    \A e \in 1..Len(validationErrors) :
      HasDependencyField(validationErrors[e])
      /\ ResolverArguments(validationErrors[e]).found =>
        LET target == ResolverArguments(validationErrors[e])
            call == ForwardCall(validationErrors[e])
            keys == KeysOf(call.log)
        IN /\ \A i, j \in 1..Len(keys) : keys[i] = keys[j] => i = j
           /\ call.visited = {keys[i] : i \in 1..Len(keys)}
           /\ RecursionDepth(call.log)
              <= Len(Entries(Prop(target.schema, "dependencies")))
           /\ call.suggestions
              = Flatten([i \in 1..Len(keys) |->
                          BranchContribution(target, keys[i])])

\* the usage and the coverage of the vehicle are both set, so each rule
\* sends the recursion to the other: two keys were processed, the second in
\* a nested call, and suggestions were returned
RulesTriggerEachOther ==
  /\ Returned /\ Accepted
  /\ Len(validationErrors) = 1
  /\ HasDependencyField(validationErrors[1])
  /\ ResolverArguments(validationErrors[1]).found
  /\ Len(KeysOf(ForwardCall(validationErrors[1]).log)) = 2
  /\ RecursionDepth(ForwardCall(validationErrors[1]).log) = 2
  /\ Len(ForwardCall(validationErrors[1]).suggestions) > 0

\* the call of findReverseDependencies for the error
ReverseCall(error) ==
  findReverseDependencies(ffSchema, error.fieldPath,
                          getNestedValue(formData, error.fieldPath),
                          ResolverArguments(error).schema,
                          ResolverArguments(error).path,
                          ResolverArguments(error).data)

\* the trigger values of the rule's branches that admit the error field's
\* current value
CandidatesOf(error, depFieldName, depRule) ==
  ValidTriggerValues(Elems(Prop(depRule, "oneOf")), depFieldName,
                     error.fieldPath[Len(error.fieldPath)],
                     getNestedValue(formData, error.fieldPath))

\* the path of a trigger field of the parent the resolver works on
TriggerPathOf(error, depFieldName) ==
  IF PathTruthy(ResolverArguments(error).path)
    THEN Append(ResolverArguments(error).path, depFieldName)
    ELSE <<depFieldName>>

\* the rule's candidates hold the trigger's current value and another value,
\* and the trigger field is visible
CurrentValueAmongCandidates(error, depFieldName, depRule) ==
  LET current == Prop(ResolverArguments(error).data, depFieldName)
      candidates == CandidatesOf(error, depFieldName, depRule)
  IN /\ Truthy(depRule) /\ Truthy(Prop(depRule, "oneOf"))
     /\ depFieldName # error.fieldPath[Len(error.fieldPath)]
     /\ SeqIncludes(candidates, current)
     /\ \E i \in 1..Len(candidates) : ~StrictEq(candidates[i], current)
     /\ fieldExistsInSchema(TriggerPathOf(error, depFieldName), ffSchema)

\* C20: when the candidate trigger values findReverseDependencies collects
\* for a rule hold the trigger's current value and at least one other value,
\* and the trigger field is visible, exactly one suggestion is emitted for
\* the trigger field, and its allowedValues are the candidates without the
\* current value.
RemainingCandidatesSuggested ==
  Returned /\ Accepted =>
    \A e \in 1..Len(validationErrors) :
      HasDependencyField(validationErrors[e])
      /\ ResolverArguments(validationErrors[e]).found =>
        LET error == validationErrors[e]
            deps == Entries(Prop(ResolverArguments(error).schema,
                                 "dependencies"))
        IN \A d \in 1..Len(deps) :
             CurrentValueAmongCandidates(error, deps[d].k, deps[d].v) =>
               LET current == Prop(ResolverArguments(error).data, deps[d].k)
                   emitted == SelectSeq(ReverseCall(error),
                                LAMBDA sg :
                                  sg.field = TriggerPathOf(error, deps[d].k))
               IN /\ Len(emitted) = 1
                  /\ emitted[1].allowedValues
                     = SelectSeq(CandidatesOf(error, deps[d].k, deps[d].v),
                                 LAMBDA v : ~StrictEq(v, current))

(***************************************************************************)
(* Properties of the reverse resolution in analyzeDependencyError.         *)
(***************************************************************************)
\* C21: every reverse-dependency suggestion in the output of
\* analyzeValidationErrors (a suggestion of a simple-type analysis on another
\* field than the error field) names a trigger field that exists in the UI
\* schema, whether findReverseDependencies or the minItems/maxItems path
\* produced it.
ReverseSuggestionOnVisibleTrigger ==
  Returned =>
    \A i \in 1..Len(Analyses) :
      Analyses[i].type = "simple" =>
        \A k \in 1..Len(Analyses[i].suggestions) :
          Analyses[i].suggestions[k].field # Analyses[i].errorField =>
            fieldExistsInSchema(Analyses[i].suggestions[k].field, ffSchema)

\* the rule the error's locator names is declared on the parent of the
\* error field
DeclaredOnParent(error) ==
  /\ HasDependencyField(error)
  /\ Truthy(Prop(Prop(getSchemaForPath(schema, getParentPath(error.fieldPath)),
                      "dependencies"),
                 findDependencyField(error.originalError.schemaPath)))

\* no earlier error of the list is on the same field
FirstOnItsField(e) ==
  \A n \in 1..(e - 1) :
    validationErrors[n].fieldPath # validationErrors[e].fieldPath

\* a branch of the rule the locator names admits the error field's current
\* value, none of those branches has the trigger's current value, and the
\* trigger field is visible
OtherBranchAdmitsValue(error) ==
  LET depFieldName == findDependencyField(error.originalError.schemaPath)
      depRule == Prop(Prop(ResolverArguments(error).schema, "dependencies"),
                      depFieldName)
      candidates == CandidatesOf(error, depFieldName, depRule)
  IN /\ Truthy(Prop(depRule, "oneOf"))
     /\ depFieldName # error.fieldPath[Len(error.fieldPath)]
     /\ Len(candidates) > 0
     /\ ~SeqIncludes(candidates,
                     Prop(ResolverArguments(error).data, depFieldName))
     /\ fieldExistsInSchema(TriggerPathOf(error, depFieldName), ffSchema)

\* the output holds a simple analysis of the error field that suggests the
\* trigger field the locator names
TriggerSuggested(error) ==
  \E i \in 1..Len(Analyses) :
    /\ Analyses[i].type = "simple"
    /\ Analyses[i].errorField = error.fieldPath
    /\ \E k \in 1..Len(Analyses[i].suggestions) :
         Analyses[i].suggestions[k].field
         = TriggerPathOf(error,
             findDependencyField(error.originalError.schemaPath))

\* C22: for a dependency-caused error whose rule is declared on the error
\* field's parent, the reverse resolution is computed whether or not the
\* forward resolver emitted anything: when another branch admits the error
\* field's current value, with trigger values other than the current one,
\* and the trigger field is visible, the output holds a simple analysis
\* suggesting the trigger field.
ReverseComputedWithoutForward ==
  Returned /\ Accepted =>
    \A e \in 1..Len(validationErrors) :
      /\ FirstOnItsField(e)
      /\ DeclaredOnParent(validationErrors[e])
      /\ OtherBranchAdmitsValue(validationErrors[e])
      => TriggerSuggested(validationErrors[e])

(***************************************************************************)
(* Properties of the forward resolver.                                     *)
(***************************************************************************)
\* the branch findAllRequiredFields selects for the rule of the parent the
\* resolver works on (undefined when the trigger is unset or no branch
\* matches)
SelectedBranch(error, depFieldName, depRule) ==
  LET value == Prop(ResolverArguments(error).data, depFieldName)
  IN IF value.t = "undef" \/ ~Truthy(Prop(depRule, "oneOf"))
       THEN Undef
       ELSE MatchingSchema(depRule, depFieldName, value)

\* the property of the branch is handled as an object: it is not the
\* trigger, carries no enum, and is object-typed
ObjectTyped(depFieldName, propName, propSchema) ==
  /\ propName # depFieldName
  /\ ~Truthy(Prop(propSchema, "enum"))
  /\ StrictEq(Prop(propSchema, "type"), Str("object"))
  /\ Truthy(Prop(propSchema, "properties"))

\* the sub-property is enum-constrained and its value is absent or not in
\* the enum
InvalidEnumLeaf(subSchema, subValue) ==
  /\ Truthy(Prop(subSchema, "enum"))
  /\ subValue.t = "undef" \/ ~Includes(Prop(subSchema, "enum"), subValue)

\* the sub-property is listed in the object's `required` and absent
MissingRequiredLeaf(propSchema, subName, subValue) ==
  /\ Truthy(Prop(propSchema, "required"))
  /\ Includes(Prop(propSchema, "required"), Str(subName))
  /\ subValue.t = "undef"

LeavesOf(error) ==
  LET target == ResolverArguments(error)
      deps == Entries(Prop(target.schema, "dependencies"))
      OfProperty(prop) ==
        LET subs == Entries(Prop(prop.v, "properties"))
        IN [n \in 1..Len(subs) |->
             [path |-> (IF PathTruthy(target.path) THEN target.path
                        ELSE <<>>) \o <<prop.k, subs[n].k>>,
              schema |-> subs[n].v,
              value |-> Prop(Prop(target.data, prop.k), subs[n].k),
              required |-> /\ Truthy(Prop(prop.v, "required"))
                           /\ Includes(Prop(prop.v, "required"),
                                       Str(subs[n].k))]]
      OfRule(dep) ==
        LET props == Entries(Prop(SelectedBranch(error, dep.k, dep.v),
                                  "properties"))
        IN Flatten([k \in 1..Len(props) |->
             IF ObjectTyped(dep.k, props[k].k, props[k].v)
               THEN OfProperty(props[k]) ELSE <<>>])
  IN Flatten([d \in 1..Len(deps) |-> OfRule(deps[d])])

\* the forward resolver suggests the field
ForwardSuggests(error, path) ==
  LET suggested == ForwardCall(error).suggestions
  IN \E g \in 1..Len(suggested) : suggested[g].field = path

ReturnsNode(sch, path) ==
  getSchemaForPath(sch, path).t \notin {"null", "undef", "thrown"}

\* the two schemas of the state whose root declares `properties`
SchemasWithProperties ==
  {sch \in {schema, ffSchema} : Truthy(Prop(sch, "properties"))}

\* C24: getSchemaForPath performs the traversal of fieldExistsInSchema: for
\* every schema and every non-empty path it returns a non-null node exactly
\* when fieldExistsInSchema(path, schema) is true (a numeric segment met at
\* a node that is not array-typed with items gives null; `properties` are
\* entered whether or not the node declares type object).
SameTraversalAsFieldExists ==
  FirstReturned =>
    \A sch \in SchemasWithProperties :
      \A path \in ProbedPaths :
        ReturnsNode(sch, path) <=> fieldExistsInSchema(path, sch)

\* the path starts with a property name, and every numeric segment of it is
\* met at an array-typed node with items, as far as the walk gets
IndicesMeetArrays(path, sch) ==
  /\ path[1] \notin IndexSegments
  /\ \A i \in 2..Len(path) :
       LET node == NodeAt(SubSeq(path, 1, i - 1), sch)
       IN path[i] \in IndexSegments /\ node # NoNode =>
            Prop(node, "type") = Str("array") /\ HasKey(node, "items")

\* every node below the root the walk passes that has `properties` declares
\* type object
ObjectsAreTyped(path, sch) ==
  \A i \in 1..(Len(path) - 1) :
    LET node == NodeAt(SubSeq(path, 1, i), sch)
    IN node # NoNode /\ HasKey(node, "properties") =>
         Prop(node, "type") = Str("object")

\* C24 (as the code has it): for a schema whose root declares `properties`
\* and a path that starts with a property name, whose numeric segments are
\* met at array-typed nodes with items and whose nodes with `properties`
\* declare type object, getSchemaForPath returns a node exactly when
\* fieldExistsInSchema is true, and the node is the one the walk of
\* fieldExistsInSchema reaches.
SameTraversalOnTypedPaths ==
  FirstReturned =>
    \A sch \in SchemasWithProperties :
      \A path \in ProbedPaths :
        IndicesMeetArrays(path, sch) /\ ObjectsAreTyped(path, sch) =>
          /\ ReturnsNode(sch, path) <=> fieldExistsInSchema(path, sch)
          /\ fieldExistsInSchema(path, sch) =>
               getSchemaForPath(sch, path) = NodeAt(path, sch)

\* the UI schema declares the insurers as an array whose items have the
\* property insurer: getSchemaForPath reaches the leaf of an element through
\* the items, and returns null for the leaf without an index
LeafReachedThroughItems ==
  /\ Returned
  /\ ffSchema \in SchemasWithProperties
  /\ ArrayWithItemProperty(Insurers, "insurer")
  /\ IndicesMeetArrays(Insurers \o <<"0", "insurer">>, ffSchema)
  /\ ObjectsAreTyped(Insurers \o <<"0", "insurer">>, ffSchema)
  /\ getSchemaForPath(ffSchema, Insurers \o <<"0", "insurer">>)
     = NodeAt(Insurers \o <<"0", "insurer">>, ffSchema)
  /\ ReturnsNode(ffSchema, Insurers \o <<"0", "insurer">>)
  /\ ~ReturnsNode(ffSchema, Insurers \o <<"insurer">>)

(***************************************************************************)
(* Properties of the analysis of errors on top-level fields.               *)
(***************************************************************************)
\* the error is on a top-level field, and its locator names a trigger field
\* for which the root of the schema declares a dependency rule
RootRuleNamed(error) ==
  /\ ~PathTruthy(getParentPath(error.fieldPath))
  /\ HasDependencyField(error)
  /\ Truthy(Prop(Prop(schema, "dependencies"),
                 findDependencyField(error.originalError.schemaPath)))

\* the top-level fields, other than the trigger and the error field, that the
\* rule's active branch requires, that are visible, and that are unset or
\* hold a value outside their enum
OwedTopLevelFields(error) ==
  LET depFieldName == findDependencyField(error.originalError.schemaPath)
      depRule == Prop(Prop(schema, "dependencies"), depFieldName)
      branch == IF Prop(formData, depFieldName).t = "undef" THEN Undef
                ELSE MatchingSchema(depRule, depFieldName,
                                    Prop(formData, depFieldName))
      props == Entries(Prop(branch, "properties"))
  IN {<<props[k].k>> : k \in
        {k \in 1..Len(props) :
           /\ props[k].k # depFieldName
           /\ <<props[k].k>> # error.fieldPath
           /\ Truthy(Prop(branch, "required"))
           /\ Includes(Prop(branch, "required"), Str(props[k].k))
           /\ fieldExistsInSchema(<<props[k].k>>, ffSchema)
           /\ \/ Prop(formData, props[k].k).t = "undef"
              \/ InvalidEnumLeaf(props[k].v, Prop(formData, props[k].k))}}

\* C25: for an error on a top-level field whose locator names a trigger
\* field with a dependency rule declared by the root of the schema, the
\* forward resolution runs on the root node and the whole data: when the
\* active branch requires another visible top-level field that is unset or
\* invalid, the output holds a dependency-type analysis of the error field
\* with the trigger's name as triggerField and that field among its
\* suggestions.
RootRuleResolvedForward ==
  FirstReturned /\ Accepted =>
    \A e \in 1..Len(validationErrors) :
      FirstOnItsField(e) /\ RootRuleNamed(validationErrors[e]) =>
        \A field \in OwedTopLevelFields(validationErrors[e]) :
          \E i \in 1..Len(Analyses) :
            /\ Analyses[i].type = "dependency"
            /\ Analyses[i].errorField = validationErrors[e].fieldPath
            /\ Analyses[i].triggerField
               = <<findDependencyField(
                     validationErrors[e].originalError.schemaPath)>>
            /\ \E k \in 1..Len(Analyses[i].suggestions) :
                 Analyses[i].suggestions[k].field = field

(***************************************************************************)
(* Properties of the analysis of array-constraint errors.                  *)
(***************************************************************************)
\* the insurers are an empty array, building.include is true, so that the
\* active branch of the rule of the ancestor building imposes the minimum
\* length, and the first error is the minItems error on the insurers
NestedMinItemsError ==
  /\ Returned
  /\ schema = BuildingSchema
  /\ getNestedValue(formData, Include) = Bool(TRUE)
  /\ getNestedValue(formData, Insurers) = Arr(<<>>)
  /\ Len(validationErrors) >= 1
  /\ validationErrors[1] = ErrorPool("building")[2]

\* C26: for a minItems error on a nested array field, currently [], whose
\* ancestor declares a dependency with an active branch that imposes the
\* minimum length, analyzeValidationErrors returns a dependency-type analysis
\* with the ancestor's trigger path as triggerField, the trigger's current
\* value as triggerValue and the array field as errorField.
NestedMinItemsGivesDependencyAnalysis ==
  NestedMinItemsError =>
    \E i \in 1..Len(Analyses) :
      /\ Analyses[i].type = "dependency"
      /\ Analyses[i].triggerField = Include
      /\ Analyses[i].triggerValue = Bool(TRUE)
      /\ Analyses[i].errorField = Insurers

(***************************************************************************)
(* Properties of the results of analyzeDependencyError.                    *)
(***************************************************************************)
\* the parameters of the error carry a list of allowed values
CarriesAllowedValues(error) ==
  Truthy(Prop(error.originalError.params, "allowedValues"))

\* the results of analyzeDependencyError for the error
ResultsFor(error) ==
  analyzeDependencyError(error, formData, schema, ffSchema).results

OnlyOwnFieldSuggested(error) ==
  /\ HasDependencyField(error)
  /\ ResolverArguments(error).found
  /\ LET suggested == ForwardCall(error).suggestions
     IN /\ Len(suggested) > 0
        /\ \A g \in 1..Len(suggested) :
             suggested[g].field = error.fieldPath
  /\ ReverseCall(error) = <<>>

\* the locator of the error names no array constraint
NoArrayConstraint(error) ==
  /\ ~LocatorIncludes(error.originalError.schemaPath, "minItems")
  /\ ~LocatorIncludes(error.originalError.schemaPath, "maxItems")

RuleSuggestions(error, dep) ==
  LET target == ResolverArguments(error)
      branch == SelectedBranch(error, dep.k, dep.v)
      props == Entries(Prop(branch, "properties"))
  IN Flatten([k \in 1..Len(props) |->
       BranchPropertySuggestions(ffSchema, dep.k, props[k].k, props[k].v,
         target.data, target.path,
         IF Truthy(Prop(branch, "required"))
           THEN Prop(branch, "required") ELSE Arr(<<>>))])

\* one pass, without recursion, over the rules of the parent in the order
\* they are declared
OnePass(error) ==
  LET deps == Entries(Prop(ResolverArguments(error).schema, "dependencies"))
  IN Flatten([d \in 1..Len(deps) |-> RuleSuggestions(error, deps[d])])

\* C28: called with a fresh visited set, findAllRequiredFields returns
\* exactly the list of one non-recursive pass over the parent's dependency
\* rules in declaration order, which takes for each rule with a defined
\* trigger the first branch whose trigger enum holds the value and appends
\* that branch's suggestions: the cascading recursion adds no suggestion,
\* removes none and keeps the order.
RecursionEqualsOnePass ==
  AnalysedAlone /\ Accepted =>
    \A e \in 1..Len(validationErrors) :
      HasDependencyField(validationErrors[e])
      /\ ResolverArguments(validationErrors[e]).found =>
        LET target == ResolverArguments(validationErrors[e])
        IN findAllRequiredFields(ffSchema, target.schema, target.data,
                                 target.path)
           = OnePass(validationErrors[e])

\* both rules of the vehicle have a set trigger and a matching branch that
\* suggests something: the second rule is processed by the recursion, and
\* its suggestions follow those of the first
SecondRuleSuggestedByRecursion ==
  /\ FirstReturned /\ Accepted
  /\ Len(validationErrors) = 1
  /\ HasDependencyField(validationErrors[1])
  /\ ResolverArguments(validationErrors[1]).found
  /\ LET deps == Entries(Prop(ResolverArguments(validationErrors[1]).schema,
                              "dependencies"))
     IN /\ Len(deps) = 2
        /\ RuleSuggestions(validationErrors[1], deps[1]) # <<>>
        /\ RuleSuggestions(validationErrors[1], deps[2]) # <<>>
  /\ RecursionDepth(ForwardCall(validationErrors[1]).log) = 2

(***************************************************************************)
(* filterUnactionableErrors applied to its own output.                     *)
(***************************************************************************)
\* the second application: filterUnactionableErrors on the validation
\* errors and the analysis output the first application returned
FilteredAgain ==
  filterUnactionableErrors(filterOutput.filteredValidationErrors, ffSchema,
                           filterOutput.filteredAnalysisOutput)

\* the first application has returned on the analysis of the first call
FirstFiltered == pc = "filtered" /\ Len(calls) = 2

\* C29: filterUnactionableErrors is idempotent on pipeline output: applied
\* to the validation errors, the UI schema and the analysis output of a
\* first application, it returns the same filteredValidationErrors, the
\* same analyses and the same missingInFlattenedSchema.
FilterIsIdempotent ==
  FirstFiltered => FilteredAgain = filterOutput

\* C29 (as the code has it): the second application returns the same
\* filteredValidationErrors and the same analyses as the first, and an empty
\* missingInFlattenedSchema: the suggestions were pruned to the visible
\* ones, so that no recorded missing field is a suggested field any more.
FilterIsIdempotentButForMissing ==
  FirstFiltered =>
    /\ FilteredAgain.filteredValidationErrors
       = filterOutput.filteredValidationErrors
    /\ FilteredAgain.filteredAnalysisOutput.analyses
       = filterOutput.filteredAnalysisOutput.analyses
    /\ FilteredAgain.filteredAnalysisOutput.missingInFlattenedSchema = <<>>

\* the first application kept an error, pruned a suggestion of an analysis
\* it kept, and returned missing fields for it
FirstApplicationPrunedAndRecorded ==
  /\ FirstFiltered
  /\ Len(filterOutput.filteredValidationErrors) > 0
  /\ \E i \in 1..Len(FilteredAnalyses) :
       \A k \in 1..Len(Analyses) : Analyses[k] # FilteredAnalyses[i]
  /\ filterOutput.filteredAnalysisOutput.missingInFlattenedSchema # <<>>

(***************************************************************************)
(* The analyses that stand for the validation errors kept by               *)
(* filterAndDeduplicateErrors.                                             *)
(***************************************************************************)
\* the returned analyses hold one on the field of the kept error
HasOwnAnalysis(error) ==
  \E k \in 1..Len(DeduplicatedAnalyses) :
    DeduplicatedAnalyses[k].errorField = error.fieldPath

\* the filter kept an analysis on the field of the error, and the returned
\* analyses hold one with the same sorted list of suggestion fields
HasAnalysisOfItsSignature(error) ==
  \E j \in 1..Len(FilteredAnalyses) :
    /\ FilteredAnalyses[j].errorField = error.fieldPath
    /\ \E k \in 1..Len(DeduplicatedAnalyses) :
         SameSignature(FilteredAnalyses[j], DeduplicatedAnalyses[k])

\* every validation error kept in filteredValidationErrors has an analysis
\* in the returned analyses whose errorField equals its fieldPath
KeptErrorHasOwnAnalysis ==
  pc = "deduplicated" =>
    \A n \in 1..Len(dedupOutput.filteredValidationErrors) :
      HasOwnAnalysis(dedupOutput.filteredValidationErrors[n])

\* C30: every validation error kept in filteredValidationErrors of
\* filterAndDeduplicateErrors has, in the returned analyses, an analysis on
\* its own fieldPath or the analysis that an analysis on its fieldPath was
\* collapsed into, which carries the same sorted list of suggestion fields.
KeptErrorHasAnalysisOfItsSignature ==
  pc = "deduplicated" =>
    \A n \in 1..Len(dedupOutput.filteredValidationErrors) :
      \/ HasOwnAnalysis(dedupOutput.filteredValidationErrors[n])
      \/ HasAnalysisOfItsSignature(dedupOutput.filteredValidationErrors[n])

\* of the kept errors one has an analysis on its own field and another is
\* served only by the analysis its own was collapsed into
KeptErrorsServedBothWays ==
  /\ pc = "deduplicated"
  /\ \E m, n \in 1..Len(dedupOutput.filteredValidationErrors) :
       /\ HasOwnAnalysis(dedupOutput.filteredValidationErrors[m])
       /\ ~HasOwnAnalysis(dedupOutput.filteredValidationErrors[n])
       /\ HasAnalysisOfItsSignature(dedupOutput.filteredValidationErrors[n])

====
